---- MODULE Spec2Model ----
(***************************************************************************)
(* Brightness-rank pixel rearrangement (lib/pixel-rearrangement.ts), the   *)
(* request validation around it (lib/validation.ts,                        *)
(* lib/bahlilfication.ts) and the particle animation of the client         *)
(* (components/DrawingCanvas.tsx, ParticleTransition).                     *)
(*                                                                         *)
(* Conventions                                                             *)
(*  - A decoded raster is [width, height, channels, data]; data is the     *)
(*    raw buffer seen one pixel at a time, data[y*width + x + 1] being the *)
(*    pixel at (x, y) (TLA+ sequences start at 1, buffers at 0).           *)
(*  - brightness is 0.299 r + 0.587 g + 0.114 b scaled by 1000 so that it  *)
(*    is an integer; the palettes below give equal brightness only to      *)
(*    pixels with equal r, g, b, so the ordering is the one the floating   *)
(*    point expression gives.                                              *)
(*  - The field n of a sample and the fields src, tgt of a correspondence  *)
(*    entry are history fields: n is the sample's ordinal in scan order.   *)
(*    No operator of the program reads them.                               *)
(***************************************************************************)
EXTENDS Integers, Sequences, FiniteSets, TLC

VARIABLES
    pc,             \* position inside rearrangePixelsToTarget
    srcImg,         \* decoded source raster (sharp(buffer).raw())
    tgtImg,         \* target raster after resize to outputWidth x outputHeight
    blockSize,      \* effective options of rearrangePixelsToTarget
    sampleStep,
    jitter,
    sourcePixels,   \* PixelPosition[] returned by extractPixels
    targetTemplate, \* PixelPosition[] returned by createTargetTemplate
    pixelMapping,   \* Map<number, PixelPosition> of mapPixelsToTarget
    outputData,     \* RGBA raster written by createImageFromPixels
    outcome,        \* how the call ended: "pending", "raster"
    run,            \* 1 for the first call, 2 for the repeated call
    prevOutput,     \* raster returned by the first call
    apiPc,          \* position inside bahlilfy
    metaWidth,      \* inputMetadata.width, inputMetadata.height
    metaHeight,
    calls,          \* history: the calls bahlilfy has made, in order
    vdResult,       \* outcome of the last call of validateDimensions
    apiError,       \* the error bahlilfy rejects with
    fileArg,        \* the argument of the last call of validateFile
    vfResult,       \* outcome of the last call of validateFile
    postPc,         \* position inside the POST handler
    postError,      \* the error the catch clause of POST received
    response,       \* the response POST returned
    fromImageData,  \* ParticleTransition: pixels of fromImage drawn at width x height
    targetImageData, \* pixels of toImage drawn at width x height
    fromLoaded,     \* closure variables of loadImages
    targetLoaded,
    loadState,      \* "loading", "resolved", or "stalled" (no 2d context)
    particles,      \* Particle[]
    animationId,    \* id of the last requested frame, 0 while undefined
    nextFrameId,    \* the id requestAnimationFrame returns next
    pendingFrame,   \* id of the frame callback that is scheduled, 0 for none
    startTime,      \* timestamp of the first tick, 0 while undefined
    lastStamp,      \* timestamp of the last tick
    finalPending,   \* finalImg is loading
    cleanedUp,      \* the effect cleanup has run
    tickLog,        \* history: phase of every tick executed, in order
    ticksAfterCleanup, \* history: ticks executed after the cleanup
    reports,        \* history: signals given to the parent, in order
    optionsArg,     \* the options argument of rearrangePixelsToTarget
    loopX,          \* loop variables x and y of the sampling loop that is running
    loopY,
    uploading,      \* Home: the useState values; a URL is 0 for null or the
    originalImage,  \* number of the drop it belongs to
    processedImage,
    finalProcessedUrl,
    transitionImage, \* 0 for null, 1 for '/target-face.png'
    isTransitioning,
    showingOriginal,
    pageError,      \* error: 0 for null, or the number of the drop that failed
    dropPc,         \* position of every call of onDrop
    readerPending,  \* drops whose FileReader has not fired onload yet
    postOk,         \* history: drops whose POST request succeeded
    completions,    \* history: number of calls of onComplete
    overlapped,     \* history: onDrop was called while an earlier call was running
    brushSize,      \* DrawingEditor: useState values
    brushColor,
    editorHasDrawing,
    isDrawing,      \* DrawingCanvas: useState values
    hasDrawing,
    ctxStyle,       \* lineWidth and strokeStyle of the 2d context
    canvasInk,      \* the strokes that are on the canvas, oldest first
    drawnSinceClear \* history: the strokes drawn since the last clear

batchVars == <<pc, srcImg, tgtImg, blockSize, sampleStep, jitter, sourcePixels,
               targetTemplate, pixelMapping, outputData, outcome, run, prevOutput>>

fileVars == <<fileArg, vfResult>>

postVars == <<postPc, postError, response>>

apiVars == <<apiPc, metaWidth, metaHeight, calls, vdResult, apiError, fileVars,
             postVars>>

animVars == <<fromImageData, targetImageData, fromLoaded, targetLoaded, loadState,
              particles, animationId, nextFrameId, pendingFrame, startTime,
              lastStamp, finalPending, cleanedUp, tickLog, ticksAfterCleanup,
              reports>>

loopVars == <<optionsArg, loopX, loopY>>

homeVars == <<uploading, originalImage, processedImage, finalProcessedUrl,
              transitionImage, isTransitioning, showingOriginal, pageError,
              dropPc, readerPending, postOk, completions, overlapped>>

canvasVars == <<brushSize, brushColor, editorHasDrawing, isDrawing, hasDrawing,
                ctxStyle, canvasInk, drawnSinceClear>>

uiVars == <<homeVars, canvasVars>>

otherVars == <<loopVars, uiVars>>

vars == <<batchVars, apiVars, animVars, otherVars>>

----------------------------------------------------------------------------
(* Bounds *)

MaxPixels == 4
MaxOpt == 2
MaxJitter == 1
RandDenom == 4
MaxSmallDim == 2
MaxGrid == 2
MaxDrops == 2
MaxStrokes == 2

(* Program constants *)

ALPHA_THRESHOLD == 50

----------------------------------------------------------------------------
(* Arithmetic helpers *)

Min(a, b) == IF a < b THEN a ELSE b
Max(a, b) == IF a > b THEN a ELSE b

Color(r, g, b, a) == [r |-> r, g |-> g, b |-> b, a |-> a]

Transparent == Color(0, 0, 0, 0)

\* 0.299 * r + 0.587 * g + 0.114 * b, times 1000
brightness(r, g, b) == 299 * r + 587 * g + 114 * b

----------------------------------------------------------------------------
(* Inputs: rasters *)

SourcePalette ==
    << Color(10, 10, 10, 255), Color(10, 10, 10, 40), Color(200, 100, 50, 255) >>

TargetPalette ==
    << Color(20, 20, 20, 255), Color(250, 250, 250, 49),
       Color(250, 250, 250, 255), Color(20, 20, 20, 50) >>

\* The raster of the given size whose k-th pixel in scan order (k from 0) is
\* the palette entry number (a*k + c) mod |palette|.
Raster(pal, w, h, ch, a, c) ==
    [width |-> w, height |-> h, channels |-> ch,
     data |-> [k \in 1..(w * h) |-> pal[((a * (k - 1) + c) % Len(pal)) + 1]]]

Shapes == { sh \in (1..MaxPixels) \X (1..MaxPixels) : sh[1] * sh[2] <= MaxPixels }

\* <<channels, a, c>>: ascending with ties, descending, constant, 3-channel
SourcePatterns == { <<4, 1, 0>>, <<4, 2, 2>>, <<4, 0, 1>>, <<3, 1, 0>> }

\* mixed alpha, opaque, fully transparent, descending mixed, descending
\* opaque, 3-channel
TargetPatterns ==
    { <<4, 1, 0>>, <<4, 2, 0>>, <<4, 0, 1>>, <<4, 3, 2>>, <<4, 2, 2>>, <<3, 1, 0>> }

\* The opaque raster whose k-th pixel in scan order (k from 0) is the grey
\* base + 40 * k: brightness is strictly increasing in scan order.
Ramp(w, h, base) ==
    [width |-> w, height |-> h, channels |-> 4,
     data |-> [k \in 1..(w * h) |->
                 Color(base + 40 * (k - 1), base + 40 * (k - 1), base + 40 * (k - 1), 255)]]

SourceRasters ==
    { Raster(SourcePalette, sh[1], sh[2], p[1], p[2], p[3]) :
        sh \in Shapes, p \in SourcePatterns }
    \cup { Ramp(sh[1], sh[2], 10) : sh \in Shapes }

TargetRasters ==
    { Raster(TargetPalette, sh[1], sh[2], p[1], p[2], p[3]) :
        sh \in Shapes, p \in TargetPatterns }
    \cup { Ramp(sh[1], sh[2], 25) : sh \in Shapes }

----------------------------------------------------------------------------
(* extractPixels *)

\* One PixelPosition; n is the history field (ordinal of the visited grid point).
PixelPosition(x, y, br, color, n) ==
    [x |-> x, y |-> y, brightness |-> br, color |-> color, n |-> n]

\* const a = channels === 4 ? data[idx + 3] : 255
AlphaOf(img, p) == IF img.channels = 4 THEN p.a ELSE 255

\* for (y = 0; y < height; y += sampleStep) for (x = 0; x < width; x += sampleStep)
RECURSIVE extractLoop(_, _, _, _, _)
extractLoop(img, step, x, y, acc) ==
    IF y >= img.height THEN acc
    ELSE IF x >= img.width THEN extractLoop(img, step, 0, y + step, acc)
    ELSE LET idx == y * img.width + x
             p == img.data[idx + 1]
             a == AlphaOf(img, p)
         IN extractLoop(img, step, x + step, y,
                Append(acc, PixelPosition(x, y, brightness(p.r, p.g, p.b),
                                          Color(p.r, p.g, p.b, a), Len(acc) + 1)))

\* Variant: samples of alpha below the threshold are left out.
extractPixels_alphaFiltered(img, step) ==
    SelectSeq(extractLoop(img, step, 0, 0, <<>>), LAMBDA p : p.color.a >= ALPHA_THRESHOLD)

extractPixels(img, step) == extractLoop(img, step, 0, 0, <<>>)

----------------------------------------------------------------------------
(* Array.prototype.sort((a, b) => a.brightness - b.brightness) *)

Compare(a, b) == a.brightness - b.brightness

\* Position at which e enters the sorted prefix: before the first element that
\* the comparator puts after e (the sort is stable).
\* Variant: e enters before the elements that compare equal to it.
RECURSIVE InsertAt_unstable(_, _, _)
InsertAt_unstable(sorted, e, k) ==
    IF k > Len(sorted) THEN k
    ELSE IF Compare(sorted[k], e) >= 0 THEN k
    ELSE InsertAt_unstable(sorted, e, k + 1)

RECURSIVE InsertAt(_, _, _)
InsertAt(sorted, e, k) ==
    IF k > Len(sorted) THEN k
    ELSE IF Compare(sorted[k], e) > 0 THEN k
    ELSE InsertAt(sorted, e, k + 1)

InsertSorted(sorted, e) ==
    LET k == InsertAt(sorted, e, 1)
    IN SubSeq(sorted, 1, k - 1) \o <<e>> \o SubSeq(sorted, k, Len(sorted))

RECURSIVE ArraySortFrom(_, _, _)
ArraySortFrom(arr, k, sorted) ==
    IF k > Len(arr) THEN sorted
    ELSE ArraySortFrom(arr, k + 1, InsertSorted(sorted, arr[k]))

ArraySort(arr) == ArraySortFrom(arr, 1, <<>>)

\* Variant: the array passed in is sorted in place.
ArrayAfterSort_inPlace(pixels) == ArraySort(pixels)

\* [...pixels]: the array passed to sortPixelsByBrightness after the call;
\* the sort works on the copy
ArrayAfterSort(pixels) == pixels

\* Variant: the copy is returned without being sorted.
sortPixelsByBrightness_unsorted(pixels) == pixels

\* return [...pixels].sort(...)
sortPixelsByBrightness(pixels) == ArraySort(pixels)

----------------------------------------------------------------------------
(* createTargetTemplate *)

\* The value of the c-th call of Math.random() (c from 0) in a run whose
\* generator starts from seed: a multiple of 1/RandDenom in [0, 1).
RandomNum(seed, c) == (seed * (c + 1) + c) % RandDenom

\* Math.floor((Math.random() * 2 - 1) * jitter), the random value being num/RandDenom
JitterOffset(num, j) == ((2 * num - RandDenom) * j) \div RandDenom

\* Variant: the offset is drawn even when the radius is 0, from radius 1.
JitterDraw_always(num, j) == JitterOffset(num, Max(1, j))

\* let jx = 0; if (jitter > 0) { jx = Math.floor(...) }
JitterDraw(num, j) == IF j > 0 THEN JitterOffset(num, j) ELSE 0

\* Math.max(0, Math.min(limit - 1, v))
Clamp(v, limit) == Max(0, Min(limit - 1, v))

\* Variant: alpha equal to the threshold is discarded too.
Discarded_inclusive(a) == a <= ALPHA_THRESHOLD

\* if (a < 50) continue
Discarded(a) == a < ALPHA_THRESHOLD

\* The sampling loop; visited counts the grid points seen so far, draws the
\* draws of Math.random() made so far.
RECURSIVE templateLoop(_, _, _, _, _, _, _, _, _)
templateLoop(img, step, j, seed, x, y, visited, draws, acc) ==
    IF y >= img.height THEN acc
    ELSE IF x >= img.width THEN templateLoop(img, step, j, seed, 0, y + step, visited, draws, acc)
    ELSE LET idx == y * img.width + x
             p == img.data[idx + 1]
             a == AlphaOf(img, p)
         IN IF Discarded(a)
            THEN templateLoop(img, step, j, seed, x + step, y, visited + 1, draws, acc)
            ELSE LET jx == JitterDraw(RandomNum(seed, draws), j)
                     jy == JitterDraw(RandomNum(seed, draws + 1), j)
                     px == Clamp(x + jx, img.width)
                     py == Clamp(y + jy, img.height)
                     used == IF j > 0 THEN 2 ELSE 0
                 IN templateLoop(img, step, j, seed, x + step, y, visited + 1, draws + used,
                        Append(acc, PixelPosition(px, py, brightness(p.r, p.g, p.b),
                                                  Color(p.r, p.g, p.b, a), visited + 1)))

\* return template.sort(...)
createTargetTemplate(img, step, j, seed) ==
    ArraySort(templateLoop(img, step, j, seed, 0, 0, 0, 0, <<>>))

----------------------------------------------------------------------------
(* mapPixelsToTarget *)

\* Variant: the entry takes the colour of the target sample.
MapEntry_targetColor(sourcePixel, targetPos) ==
    [x |-> targetPos.x, y |-> targetPos.y,
     brightness |-> sourcePixel.brightness, color |-> targetPos.color,
     src |-> sourcePixel.n, tgt |-> targetPos.n]

\* Variant: the entry takes the target position with x and y exchanged.
MapEntry_swapped(sourcePixel, targetPos) ==
    [x |-> targetPos.y, y |-> targetPos.x,
     brightness |-> sourcePixel.brightness, color |-> sourcePixel.color,
     src |-> sourcePixel.n, tgt |-> targetPos.n]

MapEntry(sourcePixel, targetPos) ==
    [x |-> targetPos.x, y |-> targetPos.y,
     brightness |-> sourcePixel.brightness, color |-> sourcePixel.color,
     src |-> sourcePixel.n, tgt |-> targetPos.n]

\* Variant: the loop stops one entry early.
mapPixelsToTarget_short(source, target) ==
    LET sortedSource == sortPixelsByBrightness(source)
        sortedTarget == sortPixelsByBrightness(target)
        totalPixels == Min(Len(sortedSource), Len(sortedTarget))
    IN [i \in 0..(totalPixels - 2) |-> MapEntry(sortedSource[i + 1], sortedTarget[i + 1])]

\* Variant: every entry takes the position of the first target sample.
mapPixelsToTarget_firstTarget(source, target) ==
    LET sortedSource == sortPixelsByBrightness(source)
        sortedTarget == sortPixelsByBrightness(target)
        totalPixels == Min(Len(sortedSource), Len(sortedTarget))
    IN [i \in 0..(totalPixels - 1) |-> MapEntry(sortedSource[i + 1], sortedTarget[1])]

\* The Map is the function from its keys to its values; keys are inserted in
\* ascending order, which is also the order forEach visits them in.
mapPixelsToTarget(source, target) ==
    LET sortedSource == sortPixelsByBrightness(source)
        sortedTarget == sortPixelsByBrightness(target)
        totalPixels == Min(Len(sortedSource), Len(sortedTarget))
    IN [i \in 0..(totalPixels - 1) |-> MapEntry(sortedSource[i + 1], sortedTarget[i + 1])]

----------------------------------------------------------------------------
(* createImageFromPixels *)

\* Pixel indices (idx / 4) written for one entry: the block's cells that pass
\* the two bounds tests.
\* Variant: the block is one pixel wider and higher.
TileIndices_wide(pixel, width, height, bs) ==
    LET half == Max(1, bs) + 1
    IN { (pixel.y + oy) * width + (pixel.x + ox) :
            <<ox, oy>> \in { c \in (0..(half - 1)) \X (0..(half - 1)) :
                                /\ ~(pixel.y + c[2] < 0 \/ pixel.y + c[2] >= height)
                                /\ ~(pixel.x + c[1] < 0 \/ pixel.x + c[1] >= width) } }

\* Variant: the test on px is left out.
TileIndices_noclip(pixel, width, height, bs) ==
    LET half == Max(1, bs)
    IN { (pixel.y + oy) * width + (pixel.x + ox) :
            <<ox, oy>> \in { c \in (0..(half - 1)) \X (0..(half - 1)) :
                                ~(pixel.y + c[2] < 0 \/ pixel.y + c[2] >= height) } }

TileIndices(pixel, width, height, bs) ==
    LET half == Max(1, bs)
    IN { (pixel.y + oy) * width + (pixel.x + ox) :
            <<ox, oy>> \in { c \in (0..(half - 1)) \X (0..(half - 1)) :
                                /\ ~(pixel.y + c[2] < 0 \/ pixel.y + c[2] >= height)
                                /\ ~(pixel.x + c[1] < 0 \/ pixel.x + c[1] >= width) } }

\* Variant: a cell that has been written already keeps its colour.
WriteTile_keepFirst(out, pixel, width, height, bs) ==
    LET cells == TileIndices(pixel, width, height, bs)
    IN [idx \in DOMAIN out |->
          IF idx \in cells /\ out[idx] = Transparent THEN pixel.color ELSE out[idx]]

WriteTile(out, pixel, width, height, bs) ==
    LET cells == TileIndices(pixel, width, height, bs)
    IN [idx \in DOMAIN out |-> IF idx \in cells THEN pixel.color ELSE out[idx]]

\* pixelMap.forEach(...), in insertion order
RECURSIVE forEachTile(_, _, _, _, _, _)
forEachTile(pixelMap, i, out, width, height, bs) ==
    IF i \notin DOMAIN pixelMap THEN out
    ELSE forEachTile(pixelMap, i + 1, WriteTile(out, pixelMap[i], width, height, bs),
                     width, height, bs)

\* Variant: the buffer starts opaque black.
BlankRaster_opaque(width, height) == [idx \in 0..(width * height - 1) |-> Color(0, 0, 0, 255)]

\* Buffer.alloc(width * height * 4); outputData.fill(0)
BlankRaster(width, height) == [idx \in 0..(width * height - 1) |-> Transparent]

createImageFromPixels(pixelMap, width, height, bs) ==
    forEachTile(pixelMap, 0, BlankRaster(width, height), width, height, bs)


----------------------------------------------------------------------------
(* lib/errors.ts, lib/validation.ts *)

maxDimension == 8000

NoError == [name |-> "none", statusCode |-> 0, code |-> "none", message |-> "none"]

\* new ValidationError(message, statusCode)
ValidationError(message, statusCode) ==
    [name |-> "ValidationError", statusCode |-> statusCode,
     code |-> "VALIDATION_ERROR", message |-> message]

\* new Error(message): not a BahlilError, it has no statusCode and no code
PlainError(message) ==
    [name |-> "Error", statusCode |-> 0, code |-> "none", message |-> message]

\* No response has been returned
NoResponse == [status |-> 0, code |-> "none"]

NotCalled == [called |-> FALSE, thrown |-> FALSE, error |-> NoError]
Returned == [called |-> TRUE, thrown |-> FALSE, error |-> NoError]
Thrown(e) == [called |-> TRUE, thrown |-> TRUE, error |-> e]

\* Variant: a side equal to the maximum is rejected.
validateDimensions_inclusive(width, height) ==
    IF width <= 0 \/ height <= 0
    THEN Thrown(ValidationError("Invalid image dimensions", 400))
    ELSE IF width >= maxDimension \/ height >= maxDimension
    THEN Thrown(ValidationError("Image dimensions too large", 400))
    ELSE Returned

\* config.maxFileSize and config.supportedFormats, environment unset
maxFileSize == 10485760
supportedFormats == <<"image/jpeg", "image/png", "image/webp">>

\* A File, or null / undefined
NoFile == [present |-> FALSE, size |-> 0, type |-> ""]
File(size, type) == [present |-> TRUE, size |-> size, type |-> type]

\* supportedFormats.includes(type)
Includes(arr, v) == \E k \in DOMAIN arr : arr[k] = v

\* Variant: the MIME type is tested before the size.
validateFile_typeFirst(file) ==
    IF ~file.present
    THEN Thrown(ValidationError("No file provided", 400))
    ELSE IF ~Includes(supportedFormats, file.type)
    THEN Thrown(ValidationError("Unsupported file type", 415))
    ELSE IF file.size > maxFileSize
    THEN Thrown(ValidationError("File too large", 413))
    ELSE IF file.size = 0
    THEN Thrown(ValidationError("File is empty", 400))
    ELSE Returned

validateFile(file) ==
    IF ~file.present
    THEN Thrown(ValidationError("No file provided", 400))
    ELSE IF file.size > maxFileSize
    THEN Thrown(ValidationError("File too large", 413))
    ELSE IF file.size = 0
    THEN Thrown(ValidationError("File is empty", 400))
    ELSE IF ~Includes(supportedFormats, file.type)
    THEN Thrown(ValidationError("Unsupported file type", 415))
    ELSE Returned

validateDimensions(width, height) ==
    IF width <= 0 \/ height <= 0
    THEN Thrown(ValidationError("Invalid image dimensions", 400))
    ELSE IF width > maxDimension \/ height > maxDimension
    THEN Thrown(ValidationError("Image dimensions too large", 400))
    ELSE Returned

----------------------------------------------------------------------------
(* rearrangePixelsToTarget *)

OptionNames == {"mosaicBlockSize", "jitter", "sampleStep"}

\* The options argument: any subset of the three fields, integer values.
\* The absent argument behaves as the record without fields.
OptionValues(field) == IF field = "jitter" THEN (-1)..MaxJitter ELSE (-1)..MaxOpt

OptionRecords ==
    UNION { { o \in [S -> (-1)..Max(MaxOpt, MaxJitter)] :
                \A f \in S : o[f] \in OptionValues(f) } : S \in SUBSET OptionNames }

\* options?.field ?? dflt
OptionOr(options, field, dflt) ==
    IF field \in DOMAIN options THEN options[field] ELSE dflt

EffectiveBlockSize(options) == Max(1, OptionOr(options, "mosaicBlockSize", 1))
\* Variant: the stride is only kept from being negative.
EffectiveSampleStep_zero(options) ==
    Max(0, OptionOr(options, "sampleStep", EffectiveBlockSize(options)))

EffectiveSampleStep(options) ==
    Max(1, OptionOr(options, "sampleStep", EffectiveBlockSize(options)))
EffectiveJitter(options) == Max(0, OptionOr(options, "jitter", 0))

\* State of the request side while only the rearrangement is considered
ApiIdle ==
    /\ apiPc = "idle"
    /\ metaWidth = 1
    /\ metaHeight = 1
    /\ calls = <<>>
    /\ vdResult = NotCalled
    /\ apiError = NoError
    /\ fileArg = NoFile
    /\ vfResult = NotCalled
    /\ postPc = "idle"
    /\ postError = NoError
    /\ response = NoResponse

\* State of the sampling loops while they are not followed step by step
LoopIdle ==
    /\ optionsArg = << >>
    /\ loopX = 0
    /\ loopY = 0

\* State of the Home page after its first render
HomeIdle ==
    /\ uploading = FALSE
    /\ originalImage = 0
    /\ processedImage = 0
    /\ finalProcessedUrl = 0
    /\ transitionImage = 0
    /\ isTransitioning = FALSE
    /\ showingOriginal = FALSE
    /\ pageError = 0
    /\ dropPc = [r \in 1..MaxDrops |-> "idle"]
    /\ readerPending = {}
    /\ postOk = {}
    /\ completions = 0
    /\ overlapped = FALSE

\* useState(10), useState('#000000'): the brush of DrawingEditor
DefaultBrushSize == 10
DefaultBrushColor == "#000000"

\* State of the drawing editor after its effects have run for the first time
CanvasIdle ==
    /\ brushSize = DefaultBrushSize
    /\ brushColor = DefaultBrushColor
    /\ editorHasDrawing = FALSE
    /\ isDrawing = FALSE
    /\ hasDrawing = FALSE
    /\ ctxStyle = [lineWidth |-> DefaultBrushSize, strokeStyle |-> DefaultBrushColor]
    /\ canvasInk = <<>>
    /\ drawnSinceClear = <<>>

OtherIdle == LoopIdle /\ HomeIdle /\ CanvasIdle

\* State of the particle animation while it is not considered
AnimIdle ==
    /\ fromImageData = [width |-> 1, height |-> 1, data |-> <<Transparent>>]
    /\ targetImageData = [width |-> 1, height |-> 1, data |-> <<Transparent>>]
    /\ fromLoaded = FALSE
    /\ targetLoaded = FALSE
    /\ loadState = "loading"
    /\ particles = <<>>
    /\ animationId = 0
    /\ nextFrameId = 1
    /\ pendingFrame = 0
    /\ startTime = 0
    /\ lastStamp = 0
    /\ finalPending = FALSE
    /\ cleanedUp = FALSE
    /\ tickLog = <<>>
    /\ ticksAfterCleanup = 0
    /\ reports = <<>>

Init ==
    /\ ApiIdle
    /\ AnimIdle
    /\ OtherIdle
    /\ pc = "start"
    /\ srcImg \in SourceRasters
    /\ tgtImg \in TargetRasters
    /\ blockSize = 1
    /\ sampleStep = 1
    /\ jitter = 0
    /\ sourcePixels = <<>>
    /\ targetTemplate = <<>>
    /\ pixelMapping = <<>>
    /\ outputData = <<>>
    /\ outcome = "pending"
    /\ run = 1
    /\ prevOutput = <<>>

\* lines 250-252: the options are normalised
Normalise ==
    /\ pc = "start"
    /\ \E options \in OptionRecords :
          /\ blockSize' = EffectiveBlockSize(options)
          /\ sampleStep' = EffectiveSampleStep(options)
          /\ jitter' = EffectiveJitter(options)
    /\ pc' = "extract"
    /\ UNCHANGED <<srcImg, tgtImg, sourcePixels, targetTemplate, pixelMapping,
                   outputData, outcome, run, prevOutput,
                   apiVars, animVars, otherVars>>

\* step 1: extractPixels(inputBuffer, sampleStep)
ExtractPixels ==
    /\ pc = "extract"
    /\ sourcePixels' = extractPixels(srcImg, sampleStep)
    /\ pc' = "template"
    /\ UNCHANGED <<srcImg, tgtImg, blockSize, sampleStep, jitter, targetTemplate,
                   pixelMapping, outputData, outcome, run, prevOutput,
                   apiVars, animVars, otherVars>>

\* step 2: createTargetTemplate(targetBuffer, outputWidth, outputHeight, sampleStep, jitter)
CreateTargetTemplate ==
    /\ pc = "template"
    /\ \E seed \in 0..(RandDenom - 1) :
          targetTemplate' = createTargetTemplate(tgtImg, sampleStep, jitter, seed)
    /\ pc' = "map"
    /\ UNCHANGED <<srcImg, tgtImg, blockSize, sampleStep, jitter, sourcePixels,
                   pixelMapping, outputData, outcome, run, prevOutput,
                   apiVars, animVars, otherVars>>

\* step 3: mapPixelsToTarget(sourcePixels, targetTemplate)
MapPixels ==
    /\ pc = "map"
    /\ pixelMapping' = mapPixelsToTarget(sourcePixels, targetTemplate)
    /\ sourcePixels' = ArrayAfterSort(sourcePixels)
    /\ targetTemplate' = ArrayAfterSort(targetTemplate)
    /\ pc' = "render"
    /\ UNCHANGED <<srcImg, tgtImg, blockSize, sampleStep, jitter,
                   outputData, outcome, run, prevOutput,
                   apiVars, animVars, otherVars>>

\* step 4: createImageFromPixels(pixelMapping, outputWidth, outputHeight, blockSize)
CreateImage ==
    /\ pc = "render"
    /\ outputData' = createImageFromPixels(pixelMapping, tgtImg.width, tgtImg.height, blockSize)
    /\ outcome' = "raster"
    /\ pc' = "done"
    /\ UNCHANGED <<srcImg, tgtImg, blockSize, sampleStep, jitter, sourcePixels,
                   targetTemplate, pixelMapping, run, prevOutput,
                   apiVars, animVars, otherVars>>

\* The function is called a second time with the same buffers and the same
\* options, jitter being 0.
CallAgain ==
    /\ pc = "done"
    /\ run = 1
    /\ jitter = 0
    /\ run' = 2
    /\ prevOutput' = outputData
    /\ sourcePixels' = <<>>
    /\ targetTemplate' = <<>>
    /\ pixelMapping' = <<>>
    /\ outputData' = <<>>
    /\ outcome' = "pending"
    /\ pc' = "extract"
    /\ UNCHANGED <<srcImg, tgtImg, blockSize, sampleStep, jitter,
                   apiVars, animVars, otherVars>>

Next ==
    \/ Normalise
    \/ ExtractPixels
    \/ CreateTargetTemplate
    \/ MapPixels
    \/ CreateImage
    \/ CallAgain

Spec == Init /\ [][Next]_vars

----------------------------------------------------------------------------
(* bahlilfy (lib/bahlilfication.ts) *)

\* Widths and heights offered to validateDimensions and to bahlilfy; 0 also
\* stands for a dimension the metadata does not give.
DimValues == ((-1)..MaxSmallDim) \cup ((maxDimension - 1)..(maxDimension + 1))

BatchIdle ==
    /\ pc = "start"
    /\ srcImg = Raster(SourcePalette, 1, 1, 4, 0, 0)
    /\ tgtImg = Raster(TargetPalette, 1, 1, 4, 0, 0)
    /\ blockSize = 1
    /\ sampleStep = 1
    /\ jitter = 0
    /\ sourcePixels = <<>>
    /\ targetTemplate = <<>>
    /\ pixelMapping = <<>>
    /\ outputData = <<>>
    /\ outcome = "pending"
    /\ run = 1
    /\ prevOutput = <<>>

InitApi ==
    /\ BatchIdle
    /\ AnimIdle
    /\ OtherIdle
    /\ apiPc = "idle"
    /\ metaWidth \in DimValues
    /\ metaHeight \in DimValues
    /\ calls = <<>>
    /\ vdResult = NotCalled
    /\ apiError = NoError
    /\ fileArg = NoFile
    /\ vfResult = NotCalled
    /\ postPc = "idle"
    /\ postError = NoError
    /\ response = NoResponse

\* catch (error) { throw new Error(`Image processing failed: ...`) }
Rethrown(e) == PlainError("Image processing failed")

\* Sizes and MIME types of the files offered to validateFile
FileSizes == { 0, 1, maxFileSize - 1, maxFileSize, maxFileSize + 1 }
FileTypes == { "image/jpeg", "image/png", "image/webp", "image/gif", "" }
Files == { NoFile } \cup { File(sz, ty) : sz \in FileSizes, ty \in FileTypes }

\* validateFile called on its own, outside a request
CallValidateFile ==
    /\ apiPc = "idle"
    /\ postPc = "idle"
    /\ \E file \in Files :
          /\ fileArg' = file
          /\ vfResult' = validateFile(file)
    /\ apiPc' = "fileChecked"
    /\ UNCHANGED <<metaWidth, metaHeight, calls, vdResult, apiError, postVars,
                   batchVars, animVars, otherVars>>

\* validateDimensions called on its own, outside a request
CallValidateDimensions ==
    /\ apiPc = "idle"
    /\ postPc = "idle"
    /\ vdResult' = validateDimensions(metaWidth, metaHeight)
    /\ apiPc' = "returned"
    /\ UNCHANGED <<metaWidth, metaHeight, calls, apiError, fileVars, postVars, batchVars, animVars, otherVars>>

\* const inputMetadata = await inputImage.metadata()
BahlilfyMetadata ==
    /\ apiPc = "idle"
    /\ postPc # "responded"
    /\ calls' = Append(calls, "metadata")
    /\ apiPc' = "metadata"
    /\ UNCHANGED <<metaWidth, metaHeight, vdResult, apiError, fileVars, postVars, batchVars, animVars, otherVars>>

\* lines 152-163: the dimension tests, then the rotation is started
BahlilfyValidate ==
    /\ apiPc = "metadata"
    /\ IF metaWidth = 0 \/ metaHeight = 0
       THEN /\ apiError' = Rethrown(PlainError("Unable to determine image dimensions"))
            /\ apiPc' = "failed"
            /\ UNCHANGED <<calls, vdResult>>
       ELSE LET res == validateDimensions(metaWidth, metaHeight)
            IN /\ vdResult' = res
               /\ IF res.thrown
                  THEN /\ apiError' = Rethrown(res.error)
                       /\ apiPc' = "failed"
                       /\ calls' = Append(calls, "validateDimensions")
                  ELSE /\ apiError' = apiError
                       /\ apiPc' = "rotate"
                       /\ calls' = calls \o <<"validateDimensions", "rotate">>
    /\ UNCHANGED <<metaWidth, metaHeight, fileVars, postVars, batchVars, animVars, otherVars>>

\* A step that awaits sharp either continues or fails with sharp's error,
\* which the inner catch replaces by a plain Error and the outer catch by
\* another one.
SharpError == PlainError("Failed to load target-face.png")

\* await inputImage.rotate().toBuffer(); the target face is read next
BahlilfyRotate ==
    /\ apiPc = "rotate"
    /\ \E ok \in BOOLEAN :
          IF ok
          THEN /\ apiPc' = "loadTarget"
               /\ calls' = calls \o <<"loadTarget">>
               /\ apiError' = apiError
          ELSE /\ apiPc' = "failed"
               /\ calls' = calls
               /\ apiError' = Rethrown(SharpError)
    /\ UNCHANGED <<metaWidth, metaHeight, vdResult, fileVars, postVars, batchVars, animVars, otherVars>>

\* await sharp(targetFacePath).toBuffer(); rearrangePixelsToTarget is called next
BahlilfyLoadTarget ==
    /\ apiPc = "loadTarget"
    /\ \E ok \in BOOLEAN :
          IF ok
          THEN /\ apiPc' = "rearrange"
               /\ calls' = calls \o <<"rearrangePixelsToTarget">>
               /\ apiError' = apiError
          ELSE /\ apiPc' = "failed"
               /\ calls' = calls
               /\ apiError' = Rethrown(SharpError)
    /\ UNCHANGED <<metaWidth, metaHeight, vdResult, fileVars, postVars, batchVars, animVars, otherVars>>

\* await rearrangePixelsToTarget(...): sampling, mapping and rendering; compositing is started
BahlilfyRearrange ==
    /\ apiPc = "rearrange"
    /\ \E ok \in BOOLEAN :
          IF ok
          THEN /\ apiPc' = "composite"
               /\ calls' = calls \o <<"extractPixels", "createTargetTemplate", "mapPixelsToTarget",
                                  "createImageFromPixels", "composite">>
               /\ apiError' = apiError
          ELSE /\ apiPc' = "failed"
               /\ calls' = calls
               /\ apiError' = Rethrown(SharpError)
    /\ UNCHANGED <<metaWidth, metaHeight, vdResult, fileVars, postVars, batchVars, animVars, otherVars>>

\* compositing and encoding; the ProcessingResult is returned
BahlilfyFinish ==
    /\ apiPc = "composite"
    /\ \E ok \in BOOLEAN :
          IF ok
          THEN /\ apiPc' = "done"
               /\ calls' = calls \o <<"toFormat">>
               /\ apiError' = apiError
          ELSE /\ apiPc' = "failed"
               /\ calls' = calls
               /\ apiError' = Rethrown(SharpError)
    /\ UNCHANGED <<metaWidth, metaHeight, vdResult, fileVars, postVars, batchVars, animVars, otherVars>>

\* error instanceof BahlilError
isKnownError(error) ==
    error.name \in {"BahlilError", "ValidationError", "ProcessingError", "TimeoutError"}

\* The catch clause of POST: NextResponse.json(...)
ErrorResponse(error) ==
    IF isKnownError(error)
    THEN [status |-> error.statusCode, code |-> error.code]
    ELSE [status |-> 500, code |-> "INTERNAL_ERROR"]

\* POST, up to the call of bahlilfy: the file of the form data is tested
\* and validated
PostReceive ==
    /\ postPc = "idle"
    /\ apiPc = "idle"
    /\ \E file \in Files :
          LET res == IF ~file.present
                     THEN Thrown(ValidationError("No valid file provided", 400))
                     ELSE validateFile(file)
          IN /\ fileArg' = file
             /\ vfResult' = IF file.present THEN res ELSE vfResult
             /\ IF res.thrown
                THEN /\ postError' = res.error
                     /\ response' = ErrorResponse(res.error)
                     /\ postPc' = "responded"
                ELSE /\ postError' = postError
                     /\ response' = response
                     /\ postPc' = "bahlilfy"
    /\ UNCHANGED <<apiPc, metaWidth, metaHeight, calls, vdResult, apiError,
                   batchVars, animVars, otherVars>>

\* POST, after await bahlilfy(buffer): the image is returned, or the catch
\* clause answers
PostRespond ==
    /\ postPc = "bahlilfy"
    /\ apiPc \in {"done", "failed"}
    /\ IF apiPc = "done"
       THEN /\ response' = [status |-> 200, code |-> "none"]
            /\ postError' = postError
       ELSE /\ response' = ErrorResponse(apiError)
            /\ postError' = apiError
    /\ postPc' = "responded"
    /\ UNCHANGED <<apiPc, metaWidth, metaHeight, calls, vdResult, apiError, fileVars,
                   batchVars, animVars, otherVars>>

NextApi ==
    \/ CallValidateFile
    \/ CallValidateDimensions
    \/ BahlilfyMetadata
    \/ BahlilfyValidate
    \/ BahlilfyRotate
    \/ BahlilfyLoadTarget
    \/ BahlilfyRearrange
    \/ BahlilfyFinish
    \/ PostReceive
    \/ PostRespond

SpecApi == InitApi /\ [][NextApi]_vars

----------------------------------------------------------------------------
(* ParticleTransition (components/DrawingCanvas.tsx)                       *)
(*                                                                         *)
(* Positions and velocities are fixed-point numbers, the unit being 1/1000 *)
(* of a pixel; progress values are in thousandths. Divisions round down.   *)
(* The field finite of a particle tells that its numbers are finite: it    *)
(* turns false when a quotient by 0 enters them.                           *)
(* Timestamps are whole milliseconds, and no tick falls on the elapsed     *)
(* time at which convergeProgress is 0.95 up to rounding.                  *)

duration == 3000
animStep == 4

\* const showOriginalPhase = 0.2; const scatterPhase = 0.4 (thousandths)
showOriginalPhase == 200
scatterPhase == 400
\* if (convergeProgress < 0.95)
lockThreshold == 950

\* scatterTargetX === undefined
Undefined == -1

Fixed(n) == 1000 * n

\* <<columns, rows>> of the sample grid; width and height follow
AnimShapes == { sh \in (1..MaxGrid) \X (1..MaxGrid) : sh[1] * sh[2] <= MaxGrid }

\* getImageData(0, 0, width, height) of a drawn image: RGBA pixels. The pixel
\* at the grid point of ordinal k (k from 0, row-major, spacing animStep) is
\* the palette entry number (a*k + c) mod |palette|; the pixels between grid
\* points are transparent.
AnimRaster(pal, cols, rows, a, c) ==
    LET w == animStep * (cols - 1) + 1
        h == animStep * (rows - 1) + 1
    IN [width |-> w, height |-> h,
        data |-> [k \in 1..(w * h) |->
                    LET px == (k - 1) % w
                        py == (k - 1) \div w
                    IN IF px % animStep = 0 /\ py % animStep = 0
                       THEN pal[((a * ((py \div animStep) * cols + px \div animStep) + c)
                                    % Len(pal)) + 1]
                       ELSE Transparent]]

\* <<a, c>>: opaque ascending, opaque descending, opaque then alpha 40,
\* constant of alpha 40
FromPatterns == { <<2, 0>>, <<1, 2>>, <<1, 0>>, <<0, 1>> }

\* <<a, c>>: opaque ascending, opaque descending, alpha 50 then opaque,
\* constant of alpha 49
ToPatterns == { <<2, 0>>, <<2, 2>>, <<3, 3>>, <<0, 1>> }

\* Two opaque colours, red and a darker green, and the drawn images made of
\* them
HuePalette == << Color(255, 0, 0, 255), Color(0, 110, 0, 255) >>
HuePatterns == { <<1, 0>> }

\* const brightness = (r, g, b) => 0.2126 * r + 0.7152 * g + 0.0722 * b, times 10000
brightness709(r, g, b) == 2126 * r + 7152 * g + 722 * b

SamplePoint(x, y, p) ==
    [x |-> x, y |-> y, r |-> p.r, g |-> p.g, b |-> p.b, a |-> p.a,
     brightness |-> brightness709(p.r, p.g, p.b)]

\* for (y = 0; y < height; y += step) for (x = 0; x < width; x += step) if (a > 50) push
RECURSIVE collectPoints(_, _, _, _)
collectPoints(imageData, x, y, acc) ==
    IF y >= imageData.height THEN acc
    ELSE IF x >= imageData.width THEN collectPoints(imageData, 0, y + animStep, acc)
    ELSE LET p == imageData.data[y * imageData.width + x + 1]
         IN collectPoints(imageData, x + animStep, y,
                IF p.a > 50 THEN Append(acc, SamplePoint(x, y, p)) ELSE acc)

\* particles[i] = { x: fromP.x, ..., originalX: fromP.x, originalY: fromP.y }
NewParticle(fromP, toP) ==
    [x |-> Fixed(fromP.x), y |-> Fixed(fromP.y),
     targetX |-> Fixed(toP.x), targetY |-> Fixed(toP.y),
     color |-> Color(fromP.r, fromP.g, fromP.b, fromP.a),
     size |-> animStep, vx |-> 0, vy |-> 0,
     originalX |-> Fixed(fromP.x), originalY |-> Fixed(fromP.y),
     scatterTargetX |-> Undefined, scatterTargetY |-> Undefined,
     finite |-> TRUE]

\* lines 308-360: sample both images, sort both by brightness, pair by rank
createParticles(fromData, toData) ==
    LET fromPoints == ArraySort(collectPoints(fromData, 0, 0, <<>>))
        toPoints == ArraySort(collectPoints(toData, 0, 0, <<>>))
        count == Min(Len(fromPoints), Len(toPoints))
    IN [i \in 1..count |-> NewParticle(fromPoints[i], toPoints[i])]

\* The effect has run: both images are loading, no frame is requested.
InitAnim ==
    /\ ApiIdle
    /\ BatchIdle
    /\ OtherIdle
    /\ \E sh \in AnimShapes :
          /\ fromImageData \in { AnimRaster(SourcePalette, sh[1], sh[2], p[1], p[2]) :
                                    p \in FromPatterns }
                                \cup { AnimRaster(HuePalette, sh[1], sh[2], p[1], p[2]) :
                                         p \in HuePatterns }
          /\ targetImageData \in { AnimRaster(TargetPalette, sh[1], sh[2], p[1], p[2]) :
                                    p \in ToPatterns }
    /\ fromLoaded = FALSE
    /\ targetLoaded = FALSE
    /\ loadState = "loading"
    /\ particles = <<>>
    /\ animationId = 0
    /\ nextFrameId = 1
    /\ pendingFrame = 0
    /\ startTime = 0
    /\ lastStamp = 0
    /\ finalPending = FALSE
    /\ cleanedUp = FALSE
    /\ tickLog = <<>>
    /\ ticksAfterCleanup = 0
    /\ reports = <<>>

\* checkBothLoaded once both flags are set, followed by the continuation of
\* loadImages().then(...): the particles are built, the promise is resolved
\* and the first frame is requested. Without a 2d context the function
\* returns before resolve().
checkBothLoaded ==
    \E tempCtx \in BOOLEAN :
        IF tempCtx
        THEN /\ particles' = createParticles(fromImageData, targetImageData)
             /\ loadState' = "resolved"
             /\ animationId' = nextFrameId
             /\ pendingFrame' = nextFrameId
             /\ nextFrameId' = nextFrameId + 1
        ELSE /\ loadState' = "stalled"
             /\ UNCHANGED <<particles, animationId, pendingFrame, nextFrameId>>

\* Variant: one loaded image is enough.
BothLoaded_either(fromDone, targetDone) == fromDone \/ targetDone

\* if (fromLoaded && targetLoaded)
BothLoaded(fromDone, targetDone) == fromDone /\ targetDone

\* fromImg.onload
FromOnload ==
    /\ ~fromLoaded
    /\ fromLoaded' = TRUE
    /\ IF BothLoaded(TRUE, targetLoaded)
       THEN checkBothLoaded
       ELSE UNCHANGED <<particles, loadState, animationId, pendingFrame, nextFrameId>>
    /\ UNCHANGED <<fromImageData, targetImageData, targetLoaded, startTime, lastStamp,
                   finalPending, cleanedUp, tickLog, ticksAfterCleanup, reports,
                   batchVars, apiVars, otherVars>>

\* targetImg.onload
TargetOnload ==
    /\ ~targetLoaded
    /\ targetLoaded' = TRUE
    /\ IF BothLoaded(fromLoaded, TRUE)
       THEN checkBothLoaded
       ELSE UNCHANGED <<particles, loadState, animationId, pendingFrame, nextFrameId>>
    /\ UNCHANGED <<fromImageData, targetImageData, fromLoaded, startTime, lastStamp,
                   finalPending, cleanedUp, tickLog, ticksAfterCleanup, reports,
                   batchVars, apiVars, otherVars>>

\* Timestamp of the first frame, and the elapsed times (ms) later frames
\* may carry: HOLD, SCATTER (three), physics (two), final lock before the
\* end, the end, and past the end.
StartStamps == { 17 }
FrameElapsed == { 300, 600, 750, 900, 1200, 2100, 2920, 3000, 3016 }

\* Timestamps the next frame may carry: they grow from frame to frame
FrameTimestamps ==
    IF startTime = 0 THEN StartStamps
    ELSE { startTime + e : e \in { t \in FrameElapsed : startTime + t > lastStamp } }

\* Variant: the quotient is not capped.
Progress_unclamped(elapsed) == (1000 * elapsed) \div duration

\* const progress = Math.min(elapsed / duration, 1), in thousandths
Progress(elapsed) == Min((1000 * elapsed) \div duration, 1000)

\* (progress - showOriginalPhase) / (scatterPhase - showOriginalPhase)
ScatterProgress(progress) ==
    (1000 * (progress - showOriginalPhase)) \div (scatterPhase - showOriginalPhase)

\* (progress - scatterPhase) / (1 - scatterPhase)
ConvergeProgress(progress) ==
    (1000 * (progress - scatterPhase)) \div (1000 - scatterPhase)

\* 1 - Math.pow(1 - convergeProgress, 3)
Eased(convergeProgress) ==
    1000 - (((1000 - convergeProgress) * (1000 - convergeProgress)
                * (1000 - convergeProgress)) \div 1000000)

\* The branch of animate a progress value takes
PhaseOf(progress) ==
    IF progress < showOriginalPhase THEN "hold"
    ELSE IF progress < scatterPhase THEN "scatter"
    ELSE IF ConvergeProgress(progress) < lockThreshold THEN "physics"
    ELSE "lock"

\* Variant: the particle drifts during HOLD.
HoldStep_drift(particle) == [particle EXCEPT !.x = particle.x + 1]

\* if (progress < showOriginalPhase) { } : the particle is left as it is
HoldStep(particle) == particle

\* particle.originalX ?? particle.x
OriginOr(original, current) == IF original = Undefined THEN current ELSE original

\* Math.random() * width, with the draw number c of the tick
RandomCoordinate(seed, c, extent) == (RandomNum(seed, c) * Fixed(extent)) \div RandDenom

\* Variant: the interpolation starts from the previous position.
ScatterStep_incremental(particle, k, scatterProgress, seed) ==
    LET fresh == particle.scatterTargetX = Undefined \/ particle.scatterTargetY = Undefined
        sX == IF fresh
              THEN RandomCoordinate(seed, 2 * (k - 1), fromImageData.width)
              ELSE particle.scatterTargetX
        sY == IF fresh
              THEN RandomCoordinate(seed, 2 * (k - 1) + 1, fromImageData.height)
              ELSE particle.scatterTargetY
    IN [particle EXCEPT !.scatterTargetX = sX,
                        !.scatterTargetY = sY,
                        !.x = particle.x + ((sX - particle.x) * scatterProgress) \div 1000,
                        !.y = particle.y + ((sY - particle.y) * scatterProgress) \div 1000]

\* Variant: the scatter target is drawn anew at every SCATTER tick.
ScatterStep_redraw(particle, k, scatterProgress, seed) ==
    LET sX == RandomCoordinate(seed, 2 * (k - 1), fromImageData.width)
        sY == RandomCoordinate(seed, 2 * (k - 1) + 1, fromImageData.height)
        origX == particle.originalX
        origY == particle.originalY
    IN [particle EXCEPT !.scatterTargetX = sX,
                        !.scatterTargetY = sY,
                        !.x = origX + ((sX - origX) * scatterProgress) \div 1000,
                        !.y = origY + ((sY - origY) * scatterProgress) \div 1000]

\* lines 410-425, for the particle of index k (from 1); the particles draw
\* their two random numbers in turn
ScatterStep(particle, k, scatterProgress, seed) ==
    LET fresh == particle.scatterTargetX = Undefined \/ particle.scatterTargetY = Undefined
        sX == IF fresh
              THEN RandomCoordinate(seed, 2 * (k - 1), fromImageData.width)
              ELSE particle.scatterTargetX
        sY == IF fresh
              THEN RandomCoordinate(seed, 2 * (k - 1) + 1, fromImageData.height)
              ELSE particle.scatterTargetY
        eased == scatterProgress
        origX == IF fresh THEN OriginOr(particle.originalX, particle.x)
                 ELSE particle.originalX
        origY == IF fresh THEN OriginOr(particle.originalY, particle.y)
                 ELSE particle.originalY
    IN [particle EXCEPT !.scatterTargetX = sX,
                        !.scatterTargetY = sY,
                        !.originalX = origX,
                        !.originalY = origY,
                        !.x = origX + ((sX - origX) * eased) \div 1000,
                        !.y = origY + ((sY - origY) * eased) \div 1000]

\* Math.sqrt of a square number of thousandths, in thousandths, rounded down
SqrtBetween[n \in Nat, lo \in Nat, hi \in Nat] ==
    IF lo >= hi THEN lo
    ELSE LET mid == (lo + hi + 1) \div 2
         IN IF mid * mid <= n THEN SqrtBetween[n, mid, hi] ELSE SqrtBetween[n, lo, mid - 1]

Sqrt(n) == SqrtBetween[n, 0, 46340]

\* a / b in numbers; the quotient by 0 is not a finite number and is
\* carried as 0 with the particle marked not finite
Quotient(a, b) == IF b = 0 THEN 0 ELSE a \div b

\* Variant: the attraction is computed whatever the distance.
PhysicsStep_noSnap(particle, eased) ==
    LET dx == particle.targetX - particle.x
        dy == particle.targetY - particle.y
        distance == Sqrt(dx * dx + dy * dy)
        force == (((distance * 80) \div 1000) * (2000 - eased)) \div 2000
        vx == ((particle.vx + Quotient(dx * force, distance)) * 88) \div 100
        vy == ((particle.vy + Quotient(dy * force, distance)) * 88) \div 100
    IN [particle EXCEPT !.vx = vx, !.vy = vy,
                        !.x = particle.x + vx, !.y = particle.y + vy,
                        !.finite = particle.finite /\ distance # 0]

\* Variant: the position moves by the velocity before the damping.
PhysicsStep_undampedMove(particle, eased) ==
    LET dx == particle.targetX - particle.x
        dy == particle.targetY - particle.y
        distance == Sqrt(dx * dx + dy * dy)
        force == (((distance * 80) \div 1000) * (2000 - eased)) \div 2000
        ax == particle.vx + Quotient(dx * force, distance)
        ay == particle.vy + Quotient(dy * force, distance)
    IN IF dx * dx + dy * dy > 250000
       THEN [particle EXCEPT !.vx = (ax * 88) \div 100, !.vy = (ay * 88) \div 100,
                             !.x = particle.x + ax, !.y = particle.y + ay,
                             !.finite = particle.finite /\ distance # 0]
       ELSE [particle EXCEPT !.x = particle.targetX, !.y = particle.targetY,
                             !.vx = 0, !.vy = 0]

\* lines 436-459. distance > 0.5 is tested on the squares; force is
\* distance * 0.08 * (1 - eased * 0.5)
PhysicsStep(particle, eased) ==
    LET dx == particle.targetX - particle.x
        dy == particle.targetY - particle.y
        distance == Sqrt(dx * dx + dy * dy)
        force == (((distance * 80) \div 1000) * (2000 - eased)) \div 2000
        vx == ((particle.vx + Quotient(dx * force, distance)) * 88) \div 100
        vy == ((particle.vy + Quotient(dy * force, distance)) * 88) \div 100
    IN IF dx * dx + dy * dy > 250000
       THEN [particle EXCEPT !.vx = vx, !.vy = vy,
                             !.x = particle.x + vx, !.y = particle.y + vy,
                             !.finite = particle.finite /\ distance # 0]
       ELSE [particle EXCEPT !.x = particle.targetX, !.y = particle.targetY,
                             !.vx = 0, !.vy = 0]

\* Variant: the final lock leaves the particle where it is.
LockStep_none(particle) == particle

\* Variant: the final lock makes the target the new origin.
LockStep_retarget(particle) ==
    [particle EXCEPT !.x = particle.targetX, !.y = particle.targetY,
                     !.originalX = particle.targetX, !.originalY = particle.targetY]

\* lines 461-463: final lock
LockStep(particle) ==
    [particle EXCEPT !.x = particle.targetX, !.y = particle.targetY]

\* Rendering: const speed = Math.sqrt(vx * vx + vy * vy); if (speed > 2) the
\* particle is drawn with a shadow
Glows(particle) == particle.vx * particle.vx + particle.vy * particle.vy > 2000 * 2000

\* The particle after one tick at the given progress
UpdateParticle(particle, k, progress, seed) ==
    IF PhaseOf(progress) = "hold" THEN HoldStep(particle)
    ELSE IF PhaseOf(progress) = "scatter"
    THEN ScatterStep(particle, k, ScatterProgress(progress), seed)
    ELSE IF PhaseOf(progress) = "physics"
    THEN PhysicsStep(particle, Eased(ConvergeProgress(progress)))
    ELSE LockStep(particle)

\* Variant: the last frame is the first one of the final lock.
KeepsGoing_untilLock(progress) == PhaseOf(progress) # "lock"

\* if (progress < 1) animationId = requestAnimationFrame(animate)
KeepsGoing(progress) == progress < 1000

\* animate(timestamp): one whole tick
Animate ==
    /\ pendingFrame # 0
    /\ \E timestamp \in FrameTimestamps, seed \in 0..(RandDenom - 1) :
          LET start == IF startTime = 0 THEN timestamp ELSE startTime
              elapsed == timestamp - start
              progress == Progress(elapsed)
          IN /\ startTime' = start
             /\ lastStamp' = timestamp
             /\ particles' = [k \in DOMAIN particles |->
                                 UpdateParticle(particles[k], k, progress, seed)]
             /\ tickLog' = Append(tickLog, [phase |-> PhaseOf(progress),
                                            progress |-> progress])
             /\ IF KeepsGoing(progress)
                THEN /\ animationId' = nextFrameId
                     /\ pendingFrame' = nextFrameId
                     /\ nextFrameId' = nextFrameId + 1
                     /\ finalPending' = finalPending
                ELSE /\ pendingFrame' = 0
                     /\ finalPending' = TRUE
                     /\ UNCHANGED <<animationId, nextFrameId>>
    /\ ticksAfterCleanup' = IF cleanedUp THEN ticksAfterCleanup + 1 ELSE ticksAfterCleanup
    /\ UNCHANGED <<fromImageData, targetImageData, fromLoaded, targetLoaded, loadState,
                   cleanedUp, reports, batchVars, apiVars, otherVars>>

\* finalImg.onload: the target image is drawn and onComplete is called
FinalOnload ==
    /\ finalPending
    /\ finalPending' = FALSE
    /\ reports' = Append(reports, "complete")
    /\ UNCHANGED <<fromImageData, targetImageData, fromLoaded, targetLoaded, loadState,
                   particles, animationId, nextFrameId, pendingFrame, startTime,
                   lastStamp, cleanedUp, tickLog, ticksAfterCleanup,
                   batchVars, apiVars, otherVars>>

\* The cleanup the effect returns: if (animationId) cancelAnimationFrame(animationId)
Cleanup ==
    /\ ~cleanedUp
    /\ cleanedUp' = TRUE
    /\ pendingFrame' = IF animationId # 0 /\ pendingFrame = animationId
                       THEN 0 ELSE pendingFrame
    /\ UNCHANGED <<fromImageData, targetImageData, fromLoaded, targetLoaded, loadState,
                   particles, animationId, nextFrameId, startTime, lastStamp,
                   finalPending, tickLog, ticksAfterCleanup, reports,
                   batchVars, apiVars, otherVars>>

NextAnim ==
    \/ FromOnload
    \/ TargetOnload
    \/ Animate
    \/ FinalOnload
    \/ Cleanup

SpecAnim == InitAnim /\ [][NextAnim]_vars

\* The browser delivers the load event of an image that can be decoded and
\* calls a requested frame callback as long as it has not been cancelled.
SpecAnimLive ==
    /\ SpecAnim
    /\ WF_vars(FromOnload)
    /\ WF_vars(TargetOnload)
    /\ WF_vars(Animate)
    /\ WF_vars(FinalOnload)

----------------------------------------------------------------------------
(* rearrangePixelsToTarget, the two sampling loops followed step by step:
   for (let y = 0; y < height; y += sampleStep)
     for (let x = 0; x < width; x += sampleStep) *)

\* The decoded source and the resized target: only their sizes matter here
LoopRasters(sh) ==
    [source |-> Raster(SourcePalette, sh[1], sh[2], 4, 1, 0),
     target |-> Raster(TargetPalette, sh[2], sh[1], 4, 2, 0)]

InitLoop ==
    /\ ApiIdle
    /\ AnimIdle
    /\ pc = "start"
    /\ \E sh \in Shapes :
          /\ srcImg = LoopRasters(sh).source
          /\ tgtImg = LoopRasters(sh).target
    /\ optionsArg \in OptionRecords
    /\ loopX = 0
    /\ loopY = 0
    /\ HomeIdle
    /\ CanvasIdle
    /\ blockSize = 1
    /\ sampleStep = 1
    /\ jitter = 0
    /\ sourcePixels = <<>>
    /\ targetTemplate = <<>>
    /\ pixelMapping = <<>>
    /\ outputData = <<>>
    /\ outcome = "pending"
    /\ run = 1
    /\ prevOutput = <<>>

\* lines 250-252 with the options the caller passed
LoopNormalise ==
    /\ pc = "start"
    /\ blockSize' = EffectiveBlockSize(optionsArg)
    /\ sampleStep' = EffectiveSampleStep(optionsArg)
    /\ jitter' = EffectiveJitter(optionsArg)
    /\ pc' = "extract"
    /\ loopX' = 0
    /\ loopY' = 0
    /\ UNCHANGED <<srcImg, tgtImg, sourcePixels, targetTemplate, pixelMapping,
                   outputData, outcome, run, prevOutput, optionsArg,
                   apiVars, animVars, uiVars>>

\* extractPixels: one pass of the inner loop body, then x += sampleStep
ExtractBody ==
    /\ pc = "extract"
    /\ loopY < srcImg.height
    /\ loopX < srcImg.width
    /\ loopX' = loopX + sampleStep
    /\ UNCHANGED <<batchVars, optionsArg, loopY, apiVars, animVars, uiVars>>

\* extractPixels: the inner loop ends, y += sampleStep, let x = 0
ExtractRow ==
    /\ pc = "extract"
    /\ loopY < srcImg.height
    /\ loopX >= srcImg.width
    /\ loopY' = loopY + sampleStep
    /\ loopX' = 0
    /\ UNCHANGED <<batchVars, optionsArg, apiVars, animVars, uiVars>>

\* extractPixels returns; createTargetTemplate starts its loops
ExtractExit ==
    /\ pc = "extract"
    /\ loopY >= srcImg.height
    /\ pc' = "template"
    /\ loopX' = 0
    /\ loopY' = 0
    /\ UNCHANGED <<srcImg, tgtImg, blockSize, sampleStep, jitter, sourcePixels,
                   targetTemplate, pixelMapping, outputData, outcome, run,
                   prevOutput, optionsArg, apiVars, animVars, uiVars>>

\* createTargetTemplate: one pass of the inner loop body (to its end or to
\* the continue), then x += sampleStep
TemplateBody ==
    /\ pc = "template"
    /\ loopY < tgtImg.height
    /\ loopX < tgtImg.width
    /\ loopX' = loopX + sampleStep
    /\ UNCHANGED <<batchVars, optionsArg, loopY, apiVars, animVars, uiVars>>

\* createTargetTemplate: the inner loop ends, y += sampleStep, let x = 0
TemplateRow ==
    /\ pc = "template"
    /\ loopY < tgtImg.height
    /\ loopX >= tgtImg.width
    /\ loopY' = loopY + sampleStep
    /\ loopX' = 0
    /\ UNCHANGED <<batchVars, optionsArg, apiVars, animVars, uiVars>>

\* createTargetTemplate returns
TemplateExit ==
    /\ pc = "template"
    /\ loopY >= tgtImg.height
    /\ pc' = "map"
    /\ loopX' = 0
    /\ loopY' = 0
    /\ UNCHANGED <<srcImg, tgtImg, blockSize, sampleStep, jitter, sourcePixels,
                   targetTemplate, pixelMapping, outputData, outcome, run,
                   prevOutput, optionsArg, apiVars, animVars, uiVars>>

NextLoop ==
    \/ LoopNormalise
    \/ ExtractBody
    \/ ExtractRow
    \/ ExtractExit
    \/ TemplateBody
    \/ TemplateRow
    \/ TemplateExit

SpecLoop == InitLoop /\ [][NextLoop]_vars

\* The function runs to its end: a statement that can execute does execute
SpecLoopLive == SpecLoop /\ WF_vars(NextLoop)

----------------------------------------------------------------------------
(* Home (app/page.tsx): onDrop, reset and the result panel. Every action is
   the code that runs between two awaits. *)

\* The upload area is rendered: {!originalImage && ...}
DropzoneShown == originalImage = 0

\* The branch of the result panel that renders ParticleTransition
TransitionShown ==
    /\ originalImage # 0
    /\ ~uploading
    /\ ~showingOriginal
    /\ isTransitioning /\ transitionImage # 0

\* The branch of the result panel that renders the processed image
ResultShown ==
    /\ originalImage # 0
    /\ ~uploading
    /\ ~showingOriginal
    /\ ~(isTransitioning /\ transitionImage # 0)
    /\ processedImage # 0

\* A button with onClick={reset} is rendered
ResetShown == originalImage # 0 /\ (processedImage # 0 \/ pageError # 0)

InitHome ==
    /\ BatchIdle
    /\ ApiIdle
    /\ AnimIdle
    /\ LoopIdle
    /\ HomeIdle
    /\ CanvasIdle

\* onDrop(acceptedFiles) up to await fetch(...); without an accepted file it
\* returns at once
Drop(r) ==
    /\ DropzoneShown
    /\ dropPc[r] = "idle"
    /\ \A q \in 1..(r - 1) : dropPc[q] # "idle"
    /\ \E hasFile \in BOOLEAN :
          IF hasFile
          THEN /\ pageError' = 0
               /\ processedImage' = 0
               /\ transitionImage' = 0
               /\ isTransitioning' = FALSE
               /\ showingOriginal' = FALSE
               /\ readerPending' = readerPending \cup {r}
               /\ uploading' = TRUE
               /\ dropPc' = [dropPc EXCEPT ![r] = "fetch"]
          ELSE /\ dropPc' = [dropPc EXCEPT ![r] = "returned"]
               /\ UNCHANGED <<pageError, processedImage, transitionImage, isTransitioning,
                              showingOriginal, readerPending, uploading>>
    /\ overlapped' = (overlapped \/ \E q \in 1..MaxDrops :
                                        dropPc[q] \in {"fetch", "shown", "starting"})
    /\ UNCHANGED <<originalImage, finalProcessedUrl, postOk, completions,
                   batchVars, apiVars, animVars, loopVars, canvasVars>>

\* reader.onload: setOriginalImage(imageUrl)
ReaderOnload(r) ==
    /\ r \in readerPending
    /\ readerPending' = readerPending \ {r}
    /\ originalImage' = r
    /\ UNCHANGED <<uploading, processedImage, finalProcessedUrl, transitionImage,
                   isTransitioning, showingOriginal, pageError, dropPc, postOk,
                   completions, overlapped, batchVars, apiVars, animVars, loopVars, canvasVars>>

\* The request is answered. With response.ok the original is shown and the
\* first timer is started; otherwise the catch and finally clauses run.
Response(r) ==
    /\ dropPc[r] = "fetch"
    /\ \E ok \in BOOLEAN :
          IF ok
          THEN /\ uploading' = FALSE
               /\ showingOriginal' = TRUE
               /\ postOk' = postOk \cup {r}
               /\ dropPc' = [dropPc EXCEPT ![r] = "shown"]
               /\ pageError' = pageError
          ELSE /\ pageError' = r
               /\ uploading' = FALSE
               /\ dropPc' = [dropPc EXCEPT ![r] = "done"]
               /\ UNCHANGED <<showingOriginal, postOk>>
    /\ UNCHANGED <<originalImage, processedImage, finalProcessedUrl, transitionImage,
                   isTransitioning, readerPending, completions,
                   overlapped, batchVars, apiVars, animVars, loopVars, canvasVars>>

\* After setTimeout(resolve, 1000): the transition is switched on
ShowTimer(r) ==
    /\ dropPc[r] = "shown"
    /\ showingOriginal' = FALSE
    /\ isTransitioning' = TRUE
    /\ finalProcessedUrl' = r
    /\ dropPc' = [dropPc EXCEPT ![r] = "starting"]
    /\ UNCHANGED <<uploading, originalImage, processedImage, transitionImage, pageError,
                   readerPending, postOk, completions,
                   overlapped, batchVars, apiVars, animVars, loopVars, canvasVars>>

\* After setTimeout(resolve, 100): animateTransition(...), then the finally
\* clause
StartTimer(r) ==
    /\ dropPc[r] = "starting"
    /\ transitionImage' = 1
    /\ uploading' = FALSE
    /\ dropPc' = [dropPc EXCEPT ![r] = "done"]
    /\ UNCHANGED <<originalImage, processedImage, finalProcessedUrl, isTransitioning,
                   showingOriginal, pageError, readerPending, postOk, completions,
                   overlapped, batchVars, apiVars, animVars, loopVars, canvasVars>>

\* onComplete of the ParticleTransition that is rendered
Complete ==
    /\ TransitionShown
    /\ isTransitioning' = FALSE
    /\ processedImage' = IF finalProcessedUrl # 0 THEN finalProcessedUrl ELSE processedImage
    /\ transitionImage' = 0
    /\ completions' = Min(completions + 1, MaxDrops)
    /\ UNCHANGED <<uploading, originalImage, finalProcessedUrl, showingOriginal, pageError,
                   dropPc, readerPending, postOk,
                   overlapped, batchVars, apiVars, animVars, loopVars, canvasVars>>

\* reset, from "Upload Another" or "Try Again"
Reset ==
    /\ ResetShown
    /\ originalImage' = 0
    /\ processedImage' = 0
    /\ transitionImage' = 0
    /\ isTransitioning' = FALSE
    /\ pageError' = 0
    /\ UNCHANGED <<uploading, finalProcessedUrl, showingOriginal, dropPc, readerPending,
                   postOk, completions, overlapped, batchVars, apiVars, animVars, loopVars, canvasVars>>

NextHome ==
    \/ \E r \in 1..MaxDrops : Drop(r)
    \/ \E r \in 1..MaxDrops : ReaderOnload(r)
    \/ \E r \in 1..MaxDrops : Response(r)
    \/ \E r \in 1..MaxDrops : ShowTimer(r)
    \/ \E r \in 1..MaxDrops : StartTimer(r)
    \/ Complete
    \/ Reset

SpecHome == InitHome /\ [][NextHome]_vars

----------------------------------------------------------------------------
(* DrawingEditor and DrawingCanvas (components/DrawingCanvas.tsx) *)

\* Values the range input and the colour input can give
BrushSizes == { 2, DefaultBrushSize }
BrushColors == { DefaultBrushColor, "#ff0000" }

InitCanvas ==
    /\ BatchIdle
    /\ ApiIdle
    /\ AnimIdle
    /\ LoopIdle
    /\ HomeIdle
    /\ CanvasIdle

\* The effect with the dependencies [width, height, brushColor, brushSize]:
\* canvas.width = width empties the canvas, the styles are set, the canvas is
\* filled with white. What is left of the strokes:
InkAfterInit(ink) == <<>>

\* startDrawing (mousedown, touchstart)
StartDrawing ==
    /\ isDrawing' = TRUE
    /\ hasDrawing' = TRUE
    /\ editorHasDrawing' = TRUE
    /\ UNCHANGED <<brushSize, brushColor, ctxStyle, canvasInk, drawnSinceClear,
                   batchVars, apiVars, animVars, loopVars, homeVars>>

\* draw (mousemove, touchmove) while a stroke is being drawn: ctx.lineTo, ctx.stroke
Draw ==
    /\ isDrawing
    /\ Len(drawnSinceClear) < MaxStrokes
    /\ canvasInk' = Append(canvasInk, ctxStyle)
    /\ drawnSinceClear' = Append(drawnSinceClear, ctxStyle)
    /\ UNCHANGED <<brushSize, brushColor, editorHasDrawing, isDrawing, hasDrawing, ctxStyle,
                   batchVars, apiVars, animVars, loopVars, homeVars>>

\* stopDrawing (mouseup, mouseleave, touchend, touchcancel)
StopDrawing ==
    /\ isDrawing
    /\ isDrawing' = FALSE
    /\ UNCHANGED <<brushSize, brushColor, editorHasDrawing, hasDrawing, ctxStyle, canvasInk,
                   drawnSinceClear, batchVars, apiVars, animVars, loopVars, homeVars>>

\* setBrushSize(Number(e.target.value)), then the effects of DrawingCanvas
\* that depend on brushSize
ChangeBrushSize ==
    /\ \E v \in BrushSizes \ {brushSize} :
          /\ brushSize' = v
          /\ ctxStyle' = [lineWidth |-> v, strokeStyle |-> brushColor]
    /\ canvasInk' = InkAfterInit(canvasInk)
    /\ UNCHANGED <<brushColor, editorHasDrawing, isDrawing, hasDrawing, drawnSinceClear,
                   batchVars, apiVars, animVars, loopVars, homeVars>>

\* setBrushColor(e.target.value), then the effects of DrawingCanvas that
\* depend on brushColor
ChangeBrushColor ==
    /\ \E c \in BrushColors \ {brushColor} :
          /\ brushColor' = c
          /\ ctxStyle' = [lineWidth |-> brushSize, strokeStyle |-> c]
    /\ canvasInk' = InkAfterInit(canvasInk)
    /\ UNCHANGED <<brushSize, editorHasDrawing, isDrawing, hasDrawing, drawnSinceClear,
                   batchVars, apiVars, animVars, loopVars, homeVars>>

\* handleClear: canvasRef.current?.clear(), setHasDrawing(false); the button
\* is disabled while hasDrawing of the editor is false
ClearCanvas ==
    /\ editorHasDrawing
    /\ canvasInk' = <<>>
    /\ drawnSinceClear' = <<>>
    /\ hasDrawing' = FALSE
    /\ editorHasDrawing' = FALSE
    /\ UNCHANGED <<brushSize, brushColor, isDrawing, ctxStyle,
                   batchVars, apiVars, animVars, loopVars, homeVars>>

NextCanvas ==
    \/ StartDrawing
    \/ Draw
    \/ StopDrawing
    \/ ChangeBrushSize
    \/ ChangeBrushColor
    \/ ClearCanvas

SpecCanvas == InitCanvas /\ [][NextCanvas]_vars

----------------------------------------------------------------------------
(* Properties of the rearrangement *)

Range(seq) == { seq[k] : k \in DOMAIN seq }

\* pixelMapping holds the result of mapPixelsToTarget
Mapped == pc \in {"render", "done"}

\* Number of samples that come before seq[k] in ascending brightness, samples
\* of equal brightness being taken in the order of the array.
RankIn(seq, k) ==
    Cardinality({ m \in DOMAIN seq :
                    \/ seq[m].brightness < seq[k].brightness
                    \/ seq[m].brightness = seq[k].brightness /\ m < k })

\* The sample of rank i (i from 0)
NthByBrightness(seq, i) == seq[CHOOSE k \in DOMAIN seq : RankIn(seq, k) = i]

\* The samples an entry was built from
SourceOf(e) == CHOOSE p \in Range(sourcePixels) : p.n = e.src
TargetOf(e) == CHOOSE p \in Range(targetTemplate) : p.n = e.tgt

C2_RankPreservation ==
    Mapped =>
        \A i, j \in DOMAIN pixelMapping :
            SourceOf(pixelMapping[i]).brightness < SourceOf(pixelMapping[j]).brightness
                => TargetOf(pixelMapping[i]).brightness <= TargetOf(pixelMapping[j]).brightness

\* Two mapped source samples that are out of brightness order in the scan
\* receive target samples of different brightness.
C2_Witness ==
    /\ Mapped
    /\ \E i, j \in DOMAIN pixelMapping :
          /\ SourceOf(pixelMapping[i]).brightness < SourceOf(pixelMapping[j]).brightness
          /\ pixelMapping[i].src > pixelMapping[j].src
          /\ TargetOf(pixelMapping[i]).brightness < TargetOf(pixelMapping[j]).brightness

\* C3: bijection. When the two sample sets have the same size, every source
\* sample is the source of exactly one entry and every target sample gives its
\* position to exactly one entry; without jitter the positions are pairwise
\* different coordinates as well.
C3_Bijection ==
    (Mapped /\ Len(sourcePixels) = Len(targetTemplate)) =>
        /\ \A k \in DOMAIN sourcePixels :
              Cardinality({ i \in DOMAIN pixelMapping :
                              pixelMapping[i].src = sourcePixels[k].n }) = 1
        /\ \A k \in DOMAIN targetTemplate :
              Cardinality({ i \in DOMAIN pixelMapping :
                              /\ pixelMapping[i].tgt = targetTemplate[k].n
                              /\ pixelMapping[i].x = targetTemplate[k].x
                              /\ pixelMapping[i].y = targetTemplate[k].y }) = 1
        /\ jitter = 0 =>
              \A i, j \in DOMAIN pixelMapping :
                  i # j => <<pixelMapping[i].x, pixelMapping[i].y>>
                           # <<pixelMapping[j].x, pixelMapping[j].y>>

\* Equal sizes, a fully opaque target, at least three samples on each side.
C3_Witness ==
    /\ Mapped
    /\ Len(sourcePixels) = Len(targetTemplate)
    /\ Len(sourcePixels) >= 3
    /\ \A k \in DOMAIN tgtImg.data : AlphaOf(tgtImg, tgtImg.data[k]) = 255

\* C4: ties are broken by scan order. Entries whose source samples have equal
\* brightness follow the scan order of the source, entries whose target
\* samples have equal brightness follow the scan order of the target, and the
\* template itself is in ascending brightness with ties in scan order.
C4_StableTies ==
    /\ pc \in {"map", "render", "done"} =>
          \A k, m \in DOMAIN targetTemplate :
              k < m => \/ targetTemplate[k].brightness < targetTemplate[m].brightness
                       \/ /\ targetTemplate[k].brightness = targetTemplate[m].brightness
                          /\ targetTemplate[k].n < targetTemplate[m].n
    /\ Mapped =>
          \A i, j \in DOMAIN pixelMapping :
              i < j =>
                 /\ SourceOf(pixelMapping[i]).brightness = SourceOf(pixelMapping[j]).brightness
                       => pixelMapping[i].src < pixelMapping[j].src
                 /\ TargetOf(pixelMapping[i]).brightness = TargetOf(pixelMapping[j]).brightness
                       => pixelMapping[i].tgt < pixelMapping[j].tgt

\* Two entries with source samples of equal brightness and different colour,
\* and two entries with target samples of equal brightness.
C4_Witness ==
    /\ Mapped
    /\ \E i, j \in DOMAIN pixelMapping :
          /\ i < j
          /\ SourceOf(pixelMapping[i]).brightness = SourceOf(pixelMapping[j]).brightness
          /\ pixelMapping[i].color # pixelMapping[j].color
    /\ \E i, j \in DOMAIN pixelMapping :
          /\ i < j
          /\ TargetOf(pixelMapping[i]).brightness = TargetOf(pixelMapping[j]).brightness
          /\ TargetOf(pixelMapping[i]).color # TargetOf(pixelMapping[j]).color

\* The pixel of a raster at (x, y)
PixelAt(img, x, y) == img.data[y * img.width + x + 1]

\* The points of a raster whose coordinates are multiples of the stride
GridPoints(img, step) ==
    { pt \in (0..(img.width - 1)) \X (0..(img.height - 1)) :
        pt[1] % step = 0 /\ pt[2] % step = 0 }

\* Ordinal of a grid point in row-major order, from 1
GridOrdinal(img, step, x, y) ==
    (y \div step) * ((img.width + step - 1) \div step) + (x \div step) + 1

\* Ordinals of the grid points of the target whose alpha is at least 50
RetainedOrdinals ==
    { GridOrdinal(tgtImg, sampleStep, pt[1], pt[2]) :
        pt \in { q \in GridPoints(tgtImg, sampleStep) :
                    AlphaOf(tgtImg, PixelAt(tgtImg, q[1], q[2])) >= 50 } }

\* C5: alpha filtering. The template holds exactly the sampled target pixels
\* whose alpha is at least 50, so every entry takes its position from such a
\* sample; without jitter every tile is anchored at a pixel of alpha >= 50.
C5_AlphaFiltering ==
    /\ pc \in {"map", "render", "done"} =>
          /\ { p.n : p \in Range(targetTemplate) } = RetainedOrdinals
          /\ Len(targetTemplate) = Cardinality(RetainedOrdinals)
          /\ \A p \in Range(targetTemplate) : p.color.a >= 50
    /\ Mapped =>
          \A i \in DOMAIN pixelMapping :
              /\ pixelMapping[i].tgt \in RetainedOrdinals
              /\ TargetOf(pixelMapping[i]).color.a >= 50
              /\ jitter = 0 =>
                    AlphaOf(tgtImg, PixelAt(tgtImg, pixelMapping[i].x, pixelMapping[i].y)) >= 50

\* A sampled target pixel of alpha 49 is discarded and one of alpha 50 gives
\* its position to an entry.
C5_Witness ==
    /\ pc = "done"
    /\ \E pt \in GridPoints(tgtImg, sampleStep) :
          AlphaOf(tgtImg, PixelAt(tgtImg, pt[1], pt[2])) = 49
    /\ \E i \in DOMAIN pixelMapping : TargetOf(pixelMapping[i]).color.a = 50

\* The colour extractPixels reads for a pixel of the source raster
SourceColors ==
    { Color(d.r, d.g, d.b, AlphaOf(srcImg, d)) : d \in Range(srcImg.data) }

\* C6: every pixel of the output raster that is not transparent has the RGBA
\* value of a source sample.
C6_ColoursComeFromSource ==
    pc = "done" =>
        \A idx \in DOMAIN outputData :
            outputData[idx].a # 0 =>
                /\ \E p \in Range(sourcePixels) : p.color = outputData[idx]
                /\ outputData[idx] \in SourceColors

\* The raster shows two different source colours and a pixel left transparent.
C6_Witness ==
    /\ pc = "done"
    /\ \E i, j \in DOMAIN outputData :
          /\ outputData[i].a # 0 /\ outputData[j].a # 0
          /\ outputData[i] # outputData[j]
    /\ \E i \in DOMAIN outputData : outputData[i] = Transparent

\* C7: every sample extracted from the input is the source of an entry of the
\* mapping that is rendered.
C7_EverySourceSampleMapped ==
    pc = "done" =>
        \A k \in DOMAIN sourcePixels :
            \E i \in DOMAIN pixelMapping : pixelMapping[i].src = sourcePixels[k].n

\* C8: the call does not return a raster when the source sample set or the
\* target sample set is empty; it fails with EmptySampleSet.
C8_EmptySampleSetFails ==
    (pc = "done" /\ (Len(sourcePixels) = 0 \/ Len(targetTemplate) = 0))
        => outcome = "EmptySampleSet"

----------------------------------------------------------------------------
(* Properties of the request side *)

SamplingCalls ==
    {"rearrangePixelsToTarget", "extractPixels", "createTargetTemplate",
     "mapPixelsToTarget", "createImageFromPixels"}

\* C9: validateDimensions throws a ValidationError with status 400 exactly
\* when width <= 0, height <= 0, width > 8000 or height > 8000 and returns
\* normally otherwise; in bahlilfy every sampling, mapping or rendering call
\* comes after a call of validateDimensions that returned.
C9_ValidateDimensions ==
    /\ vdResult.called =>
          /\ vdResult.thrown <=> \/ metaWidth <= 0 \/ metaHeight <= 0
                                 \/ metaWidth > 8000 \/ metaHeight > 8000
          /\ vdResult.thrown =>
                /\ vdResult.error.name = "ValidationError"
                /\ vdResult.error.statusCode = 400
          /\ ~vdResult.thrown => vdResult.error = NoError
    /\ \A k \in DOMAIN calls :
          calls[k] \in SamplingCalls =>
              /\ \E m \in 1..(k - 1) : calls[m] = "validateDimensions"
              /\ vdResult = Returned

\* bahlilfy has rendered an image whose width is the largest accepted one.
C9_Witness ==
    /\ apiPc = "composite"
    /\ metaWidth = 8000
    /\ vdResult = Returned
    /\ \E k \in DOMAIN calls : calls[k] = "createImageFromPixels"


----------------------------------------------------------------------------
(* Properties of the rendered raster (specification Spec) *)

\* The colour extractPixels reads at pixel index idx (from 0) of the source
SourceColorAt(idx) ==
    LET p == srcImg.data[idx + 1]
    IN Color(p.r, p.g, p.b, AlphaOf(srcImg, p))

\* Brightness grows strictly from each pixel to the next in scan order
StrictlyIncreasing(img) ==
    \A k \in 2..(img.width * img.height) :
        brightness(img.data[k].r, img.data[k].g, img.data[k].b)
            > brightness(img.data[k - 1].r, img.data[k - 1].g, img.data[k - 1].b)

Opaque(img) ==
    \A k \in 1..(img.width * img.height) : AlphaOf(img, img.data[k]) = 255

RoundTripCase ==
    /\ pc = "done"
    /\ srcImg.width = tgtImg.width
    /\ srcImg.height = tgtImg.height
    /\ Opaque(tgtImg)
    /\ StrictlyIncreasing(srcImg)
    /\ StrictlyIncreasing(tgtImg)
    /\ sampleStep = 1
    /\ blockSize = 1
    /\ jitter = 0

\* C11: round trip. Source and fully opaque target of the same dimensions,
\* both with brightness strictly increasing in scan order, stride 1, block
\* size 1 and no jitter: the output raster equals the source raster pixel
\* for pixel.
C11_RoundTrip ==
    RoundTripCase =>
        /\ DOMAIN outputData = 0..(srcImg.width * srcImg.height - 1)
        /\ \A idx \in DOMAIN outputData : outputData[idx] = SourceColorAt(idx)

\* The 2x2 case of four different brightnesses
C11_Witness ==
    /\ RoundTripCase
    /\ srcImg.width = 2
    /\ srcImg.height = 2
    /\ Cardinality({ outputData[idx] : idx \in DOMAIN outputData }) = 4

\* The entries whose block [x, x+b) x [y, y+b) holds the pixel of index idx
Covering(idx) ==
    LET px == idx % tgtImg.width
        py == idx \div tgtImg.width
    IN { i \in DOMAIN pixelMapping :
            /\ pixelMapping[i].x <= px /\ px < pixelMapping[i].x + blockSize
            /\ pixelMapping[i].y <= py /\ py < pixelMapping[i].y + blockSize }

\* C12: the output raster has exactly width * height RGBA pixels, it starts
\* fully transparent, and after rendering every pixel that no tile covers is
\* still (0, 0, 0, 0).
C12_UncoveredStaysTransparent ==
    /\ BlankRaster(tgtImg.width, tgtImg.height)
          = [idx \in 0..(tgtImg.width * tgtImg.height - 1) |-> Color(0, 0, 0, 0)]
    /\ pc = "done" =>
          /\ DOMAIN outputData = 0..(tgtImg.width * tgtImg.height - 1)
          /\ \A idx \in DOMAIN outputData :
                 Covering(idx) = {} => outputData[idx] = Color(0, 0, 0, 0)

\* Some pixels are covered and painted, others are not
C12_Witness ==
    /\ pc = "done"
    /\ \E idx \in DOMAIN outputData : Covering(idx) = {}
    /\ \E idx \in DOMAIN outputData : Covering(idx) # {} /\ outputData[idx] # Transparent

\* Pixel indices of the block of side b at (x, y) that lie inside the raster
BlockInside(x, y, b, width, height) ==
    { idx \in 0..(width * height - 1) :
        /\ x <= idx % width /\ idx % width < x + b
        /\ y <= idx \div width /\ idx \div width < y + b }

\* C13: for an entry at (x, y) and block size b >= 1, createImageFromPixels
\* writes the entry's colour to exactly the pixels of [x, x+b) x [y, y+b)
\* that lie inside the raster, and writes at no index outside the buffer.
C13_TileIsClippedBlock ==
    Mapped =>
        \A i \in DOMAIN pixelMapping :
            LET e == pixelMapping[i]
                W == tgtImg.width
                H == tgtImg.height
                block == BlockInside(e.x, e.y, blockSize, W, H)
                before == BlankRaster(W, H)
                after == WriteTile(before, e, W, H, blockSize)
            IN /\ blockSize >= 1
               /\ TileIndices(e, W, H, blockSize) = block
               /\ TileIndices(e, W, H, blockSize) \subseteq 0..(W * H - 1)
               /\ DOMAIN after = DOMAIN before
               /\ \A idx \in DOMAIN after :
                      after[idx] = IF idx \in block THEN e.color ELSE before[idx]

\* A block of side 2 that lies wholly inside the raster and one cut by the
\* right edge
C13_Witness ==
    /\ pc = "done"
    /\ blockSize = 2
    /\ \E i \in DOMAIN pixelMapping :
          Cardinality(TileIndices(pixelMapping[i], tgtImg.width, tgtImg.height, blockSize)) = 4
    /\ \E i \in DOMAIN pixelMapping :
          /\ pixelMapping[i].x + blockSize > tgtImg.width
          /\ pixelMapping[i].y + 1 < tgtImg.height

\* The largest member of a non-empty set of integers
MaxOf(S) == CHOOSE m \in S : \A k \in S : k <= m

\* C14: overlaps are resolved last write wins in rank order: a pixel that
\* several tiles cover ends with the colour of the covering entry of the
\* highest index.
C14_LastWriteWins ==
    pc = "done" =>
        \A idx \in DOMAIN outputData :
            Covering(idx) # {} =>
                outputData[idx] = pixelMapping[MaxOf(Covering(idx))].color

\* A pixel covered by two entries of different colours
C14_Witness ==
    /\ pc = "done"
    /\ \E idx \in DOMAIN outputData :
          \E i, j \in Covering(idx) :
              /\ i < j
              /\ j = MaxOf(Covering(idx))
              /\ pixelMapping[i].color # pixelMapping[j].color

\* The k-th grid point (k from 1) in row-major order
NthGridPoint(img, step, k) ==
    LET cols == (img.width + step - 1) \div step
    IN << ((k - 1) % cols) * step, ((k - 1) \div cols) * step >>

Sampled == pc \in {"template", "map", "render", "done"}

\* C20: extractPixels with stride s >= 1 returns exactly one sample for each
\* (x, y) with x and y multiples of s inside the raster, in row-major order,
\* ceil(width / s) * ceil(height / s) samples in all; no sample is left out
\* because of its alpha.
C20_ExtractSamplesEveryGridPoint ==
    Sampled =>
        LET s == sampleStep
            cols == (srcImg.width + s - 1) \div s
            rows == (srcImg.height + s - 1) \div s
        IN /\ s >= 1
           /\ Len(sourcePixels) = cols * rows
           /\ { <<p.x, p.y>> : p \in Range(sourcePixels) } = GridPoints(srcImg, s)
           /\ \A k \in DOMAIN sourcePixels :
                  /\ <<sourcePixels[k].x, sourcePixels[k].y>> = NthGridPoint(srcImg, s, k)
                  /\ sourcePixels[k].color
                        = SourceColorAt(sourcePixels[k].y * srcImg.width + sourcePixels[k].x)

\* Stride 2 over a width that is no multiple of it, a sample of alpha below 50
C20_Witness ==
    /\ Sampled
    /\ sampleStep = 2
    /\ srcImg.width = 3
    /\ Len(sourcePixels) = 2
    /\ \E k \in DOMAIN sourcePixels : sourcePixels[k].color.a < 50


----------------------------------------------------------------------------
(* Properties of the particle animation (SpecAnim, SpecAnimLive) *)

LastTick == tickLog[Len(tickLog)]

AtTarget(particle) == particle.x = particle.targetX /\ particle.y = particle.targetY

AtRest(particle) ==
    /\ particle.x = particle.originalX
    /\ particle.y = particle.originalY
    /\ particle.vx = 0
    /\ particle.vy = 0

\* C15: exact convergence. After every tick with (p - 0.4) / 0.6 >= 0.95,
\* that is p >= 0.97 and in particular p = 1, every particle is exactly at
\* its target, whatever ticks came before.
C15_ExactConvergence ==
    (tickLog # <<>> /\ LastTick.progress >= 970) =>
        \A k \in DOMAIN particles : AtTarget(particles[k])

\* The tick with p = 1 follows the first tick at once, no tick having fallen
\* into SCATTER or CONVERGE before, and a particle had to move.
C15_Witness ==
    /\ Len(tickLog) = 2
    /\ tickLog[1].phase = "hold"
    /\ LastTick.progress = 1000
    /\ \E k \in DOMAIN particles :
          /\ AtTarget(particles[k])
          /\ particles[k].targetX # particles[k].originalX

\* C16: during HOLD, after every tick with p < 0.2 (p = 0 included), every
\* particle is at its origin with velocity zero, however many such ticks
\* there have been.
C16_HoldKeepsOrigin ==
    (tickLog # <<>> /\ LastTick.progress < 200) =>
        /\ LastTick.phase = "hold"
        /\ \A k \in DOMAIN particles : AtRest(particles[k])

\* Two HOLD ticks, p = 0 and p = 0.1, with two particles
C16_Witness ==
    /\ Len(tickLog) = 2
    /\ tickLog[1].progress = 0
    /\ LastTick.progress = 100
    /\ Len(particles) = 2
    /\ \A k \in DOMAIN particles : AtRest(particles[k])

\* A tick with p = 1 has been processed
FinalTickDone == \E k \in DOMAIN tickLog : tickLog[k].progress = 1000

\* C17: in a run that is not cancelled and whose ticks keep arriving,
\* completion is signalled exactly once; it is signalled only after a tick
\* with p = 1 has been processed, and no frame is requested after that tick.
C17_CompletesExactlyOnce ==
    /\ [](/\ Len(reports) <= 1
          /\ reports # <<>> => FinalTickDone
          /\ FinalTickDone => pendingFrame = 0 /\ LastTick.progress = 1000)
    /\ <>(cleanedUp \/ loadState = "stalled" \/ reports = <<"complete">>)

\* Completion has been signalled in a run that was not cancelled
C17_Witness ==
    /\ reports = <<"complete">>
    /\ ~cleanedUp
    /\ FinalTickDone
    /\ pendingFrame = 0
    /\ ~finalPending

\* C18: once the effect cleanup has run, no tick executes any more, be it
\* that the cleanup ran between two ticks or before the images had loaded.
C18_NoTickAfterCleanup == ticksAfterCleanup = 0

\* C19: with an empty particle set the run does not start: no tick executes,
\* completion is not signalled, and a start failure is reported exactly once.
C19_EmptyRunNeverStarts ==
    (loadState = "resolved" /\ particles = <<>>) =>
        /\ tickLog = <<>>
        /\ \A k \in DOMAIN reports : reports[k] # "complete"
        /\ Cardinality({ k \in DOMAIN reports : reports[k] = "start-failure" }) = 1


----------------------------------------------------------------------------
(* Properties of validateFile (SpecApi) *)

\* The checks in the order the claim gives them: <<the check fails, status>>
FileChecks(file) ==
    << <<~file.present, 400>>,
       <<file.present /\ file.size > maxFileSize, 413>>,
       <<file.present /\ file.size = 0, 400>>,
       <<file.present /\ file.type \notin {"image/jpeg", "image/png", "image/webp"}, 415>> >>

FailedChecks(file) == { k \in 1..4 : FileChecks(file)[k][1] }

\* C21: validateFile accepts a file exactly when it is present, its size is
\* in 1..maxFileSize and its MIME type is supported; otherwise it throws a
\* ValidationError whose status is the one of the first failing check in the
\* order missing (400), too large (413), empty (400), unsupported (415).
C21_ValidateFile ==
    apiPc = "fileChecked" =>
        /\ vfResult.called
        /\ ~vfResult.thrown <=>
              /\ fileArg.present
              /\ 0 < fileArg.size
              /\ fileArg.size <= 10 * 1024 * 1024
              /\ fileArg.type \in {"image/jpeg", "image/png", "image/webp"}
        /\ ~vfResult.thrown <=> FailedChecks(fileArg) = {}
        /\ vfResult.thrown =>
              /\ vfResult.error.name = "ValidationError"
              /\ vfResult.error.code = "VALIDATION_ERROR"
              /\ \E k \in FailedChecks(fileArg) :
                    /\ \A m \in FailedChecks(fileArg) : k <= m
                    /\ vfResult.error.statusCode = FileChecks(fileArg)[k][2]

\* A file that is too large and of an unsupported type is rejected with 413
C21_Witness ==
    /\ apiPc = "fileChecked"
    /\ fileArg.present
    /\ fileArg.size > maxFileSize
    /\ fileArg.type = "image/gif"
    /\ vfResult.thrown
    /\ vfResult.error.statusCode = 413


----------------------------------------------------------------------------
(* Properties of the jitter (Spec) *)

\* The offsets Math.floor((Math.random() * 2 - 1) * j) can take
JitterOffsets(j) == { JitterDraw(num, j) : num \in 0..(RandDenom - 1) }

\* The template has been built with a positive jitter radius
Jittered == pc \in {"map", "render", "done"} /\ jitter > 0

\* Every template sample lies in the raster, within the radius of the grid
\* point it was read at on each axis before clamping, and has the colour and
\* brightness of that grid point.
JitterPlacement ==
    \A p \in Range(targetTemplate) :
        LET g == NthGridPoint(tgtImg, sampleStep, p.n)
            px == PixelAt(tgtImg, g[1], g[2])
        IN /\ p.x \in 0..(tgtImg.width - 1)
           /\ p.y \in 0..(tgtImg.height - 1)
           /\ \E ox, oy \in (-jitter)..jitter :
                 /\ p.x = Max(0, Min(tgtImg.width - 1, g[1] + ox))
                 /\ p.y = Max(0, Min(tgtImg.height - 1, g[2] + oy))
           /\ p.color = Color(px.r, px.g, px.b, AlphaOf(tgtImg, px))
           /\ p.brightness = brightness(px.r, px.g, px.b)

\* C22: with jitter radius j > 0 each retained target sample is moved on
\* each axis by an integer offset of [-j, j], every integer of that range
\* being possible and none outside it, and is then clamped into the raster;
\* its brightness and colour are those of the unjittered coordinate.
C22_JitterRange ==
    Jittered =>
        /\ JitterOffsets(jitter) = (-jitter)..jitter
        /\ JitterPlacement

\* What does hold: the offsets are those of [-j, j - 1]
C22_OffsetsBelowRadius ==
    Jittered =>
        /\ JitterOffsets(jitter) = (-jitter)..(jitter - 1)
        /\ JitterPlacement


----------------------------------------------------------------------------
(* Properties of the SCATTER phase (SpecAnim) *)

ScatterTicks == { k \in DOMAIN tickLog : tickLog[k].phase = "scatter" }

ScatterTargetUnset(particle) ==
    particle.scatterTargetX = Undefined /\ particle.scatterTargetY = Undefined

\* The scatter target is a point of [0, width) x [0, height)
ScatterTargetInRaster(particle) ==
    /\ 0 <= particle.scatterTargetX /\ particle.scatterTargetX < Fixed(fromImageData.width)
    /\ 0 <= particle.scatterTargetY /\ particle.scatterTargetY < Fixed(fromImageData.height)

\* C23: the scatter target of every particle is unset from construction
\* until the first tick that falls in SCATTER, is a point within the raster
\* from that tick on, and no later tick changes it.
C23_ScatterTargetLazyAndStable ==
    /\ [](\A k \in DOMAIN particles :
             IF ScatterTicks = {}
             THEN ScatterTargetUnset(particles[k])
             ELSE ScatterTargetInRaster(particles[k]))
    /\ [][\A k \in DOMAIN particles :
             ~ScatterTargetUnset(particles[k]) =>
                 /\ particles'[k].scatterTargetX = particles[k].scatterTargetX
                 /\ particles'[k].scatterTargetY = particles[k].scatterTargetY]_vars

\* Two SCATTER ticks and a CONVERGE tick after them, two particles with
\* different scatter targets
C23_Witness ==
    /\ Cardinality(ScatterTicks) = 2
    /\ LastTick.phase = "physics"
    /\ Len(particles) = 2
    /\ ScatterTargetInRaster(particles[1])
    /\ particles[1].scatterTargetX # particles[2].scatterTargetX


\* Point at fraction q (thousandths) of the way from a to b
Lerp(a, b, q) == a + ((b - a) * q) \div 1000

\* C24: after any SCATTER tick with local progress q = (p - 0.2) / 0.2 every
\* particle is at origin + (scatterTarget - origin) * q, whatever its
\* previous position and however many ticks came before.
C24_ScatterIsLinearInterpolation ==
    (tickLog # <<>> /\ 200 <= LastTick.progress /\ LastTick.progress < 400) =>
        LET q == 5 * (LastTick.progress - 200)
        IN \A k \in DOMAIN particles :
               /\ particles[k].x
                     = Lerp(particles[k].originalX, particles[k].scatterTargetX, q)
               /\ particles[k].y
                     = Lerp(particles[k].originalY, particles[k].scatterTargetY, q)

\* SCATTER ticks at q = 0.25 and q = 0.5; a particle has left its origin
C24_Witness ==
    /\ Len(tickLog) = 3
    /\ tickLog[2].progress = 250
    /\ LastTick.progress = 300
    /\ \E k \in DOMAIN particles :
          /\ particles[k].x # particles[k].originalX
          /\ particles[k].x # particles[k].scatterTargetX


----------------------------------------------------------------------------
(* Properties of the tick sequence (SpecAnim) *)

\* HOLD, SCATTER, CONVERGE numbered in their order
PhaseRank(progress) == IF progress < 200 THEN 1 ELSE IF progress < 400 THEN 2 ELSE 3

PhaseNames(rank) ==
    IF rank = 1 THEN {"hold"} ELSE IF rank = 2 THEN {"scatter"} ELSE {"physics", "lock"}

\* C25: on every tick p lies in [0, 1], p is 0 on the first tick and never
\* decreases from tick to tick; the branch a tick takes is given by p alone
\* (HOLD below 0.2, SCATTER below 0.4, CONVERGE from 0.4 on), so the phases
\* come in the order HOLD, SCATTER, CONVERGE and never regress; at most one
\* frame is pending at any time.
C25_ProgressMonotoneOnePending ==
    /\ \A k \in DOMAIN tickLog :
          /\ 0 <= tickLog[k].progress /\ tickLog[k].progress <= 1000
          /\ tickLog[k].phase \in PhaseNames(PhaseRank(tickLog[k].progress))
    /\ tickLog # <<>> => tickLog[1].progress = 0
    /\ \A i, j \in DOMAIN tickLog :
          i < j => /\ tickLog[i].progress <= tickLog[j].progress
                   /\ PhaseRank(tickLog[i].progress) <= PhaseRank(tickLog[j].progress)
    /\ (nextFrameId - 1) - Len(tickLog) \in {0, 1}
    /\ pendingFrame # 0 => pendingFrame = nextFrameId - 1

\* A run through all three phases whose last frame comes 16 ms past the end
C25_Witness ==
    /\ tickLog # <<>>
    /\ { tickLog[k].phase : k \in DOMAIN tickLog } = {"hold", "scatter", "physics", "lock"}
    /\ lastStamp - startTime = 3016
    /\ LastTick.progress = 1000
    /\ pendingFrame = 0


----------------------------------------------------------------------------
(* Properties of the physics branch (SpecAnim) *)

\* The step is a tick that took the physics branch (CONVERGE, q < 0.95)
PhysicsTick ==
    /\ tickLog' # tickLog
    /\ tickLog'[Len(tickLog')].progress >= 400
    /\ tickLog'[Len(tickLog')].progress < 970

\* Square of the distance to the target, in millionths of a square pixel
Distance2(particle) ==
    (particle.targetX - particle.x) * (particle.targetX - particle.x)
        + (particle.targetY - particle.y) * (particle.targetY - particle.y)

\* C26: in CONVERGE with q < 0.95 a particle at distance <= 0.5 from its
\* target, distance 0 included, is set exactly to the target with velocity
\* (0, 0); the division by the distance is made only for a distance above
\* 0.5, so no tick divides by zero and every position stays finite.
C26_SnapAvoidsDivisionByZero ==
    /\ [](\A k \in DOMAIN particles : particles[k].finite)
    /\ [][PhysicsTick =>
             \A k \in DOMAIN particles :
                 Distance2(particles[k]) <= 250000 =>
                     /\ particles'[k].x = particles[k].targetX
                     /\ particles'[k].y = particles[k].targetY
                     /\ particles'[k].vx = 0
                     /\ particles'[k].vy = 0]_vars

\* The physics tick follows the first tick at once; one particle started on
\* its target (distance 0) and has been snapped.
C26_Witness ==
    /\ Len(tickLog) = 2
    /\ LastTick.phase = "physics"
    /\ \E k \in DOMAIN particles :
          /\ particles[k].originalX = particles[k].targetX
          /\ particles[k].originalY = particles[k].targetY
          /\ AtTarget(particles[k])
          /\ particles[k].vx = 0 /\ particles[k].vy = 0
          /\ particles[k].finite

\* A particle that a SCATTER tick had moved to within half a pixel of its
\* target, but not onto it, has been snapped by the physics tick after it.
C26_NearSnapReached ==
    /\ Len(tickLog) = 3
    /\ tickLog[2].progress = 250
    /\ LastTick.phase = "physics"
    /\ \E k \in DOMAIN particles :
          LET px == Lerp(particles[k].originalX, particles[k].scatterTargetX, 250)
              py == Lerp(particles[k].originalY, particles[k].scatterTargetY, 250)
              d2 == (particles[k].targetX - px) * (particles[k].targetX - px)
                       + (particles[k].targetY - py) * (particles[k].targetY - py)
          IN /\ 0 < d2 /\ d2 <= 250000
             /\ AtTarget(particles[k])
             /\ particles[k].vx = 0 /\ particles[k].vy = 0


----------------------------------------------------------------------------
(* Disjointness of the tiles (Spec) *)

\* The pixels createImageFromPixels writes for entry i
TileOf(i) == TileIndices(pixelMapping[i], tgtImg.width, tgtImg.height, blockSize)

\* No output pixel is written by more than one tile
TilesDisjoint ==
    \A i, j \in DOMAIN pixelMapping : i # j => TileOf(i) \cap TileOf(j) = {}

\* C28 as stated: whenever the sampling stride is at least the block size,
\* no output pixel is written by more than one tile.
C28_DisjointWhenStrideCoversBlock ==
    (Mapped /\ sampleStep >= blockSize) => TilesDisjoint

\* C28 amended: whenever the sampling stride is at least the block size and
\* the jitter radius is 0, no output pixel is written by more than one tile.
C28_DisjointWithoutJitter ==
    (Mapped /\ sampleStep >= blockSize /\ jitter = 0) => TilesDisjoint

\* Two tiles of side 2 laid side by side with stride 2 and no jitter
C28_Witness ==
    /\ pc = "done"
    /\ jitter = 0
    /\ sampleStep = 2
    /\ blockSize = 2
    /\ \E i, j \in DOMAIN pixelMapping :
          /\ i # j
          /\ Cardinality(TileOf(i)) = 2
          /\ Cardinality(TileOf(j)) = 2
    /\ TilesDisjoint


----------------------------------------------------------------------------
(* The two brightness formulas (SpecAnim) *)

\* The colours at the grid points of a drawn image
SampledColors(imageData) ==
    { imageData.data[k] : k \in { m \in DOMAIN imageData.data :
                                      /\ ((m - 1) % imageData.width) % animStep = 0
                                      /\ ((m - 1) \div imageData.width) % animStep = 0 } }

\* -1, 0 or 1
Sign(n) == IF n < 0 THEN -1 ELSE IF n > 0 THEN 1 ELSE 0

\* The formula of extractPixels and the formula of ParticleTransition put
\* the two colours in the same order
SameOrder(c, d) ==
    Sign(brightness(c.r, c.g, c.b) - brightness(d.r, d.g, d.b))
        = Sign(brightness709(c.r, c.g, c.b) - brightness709(d.r, d.g, d.b))

\* C29: one brightness formula is applied uniformly: the batch path and the
\* animation path order every two colours the same way, so the particles,
\* which the animation ranks, are also in the order of the batch brightness.
C29_OneBrightnessFormula ==
    loadState = "resolved" =>
        /\ \A c, d \in SampledColors(fromImageData) \cup SampledColors(targetImageData) :
               SameOrder(c, d)
        /\ \A i, j \in DOMAIN particles :
               i < j => brightness(particles[i].color.r, particles[i].color.g,
                                   particles[i].color.b)
                           <= brightness(particles[j].color.r, particles[j].color.g,
                                         particles[j].color.b)


----------------------------------------------------------------------------
(* Frame of mapPixelsToTarget (Spec) *)

----------------------------------------------------------------------------
(* Option normalisation (SpecLoopLive) *)

Has(options, field) == field \in DOMAIN options

\* C31: for every integer option value, 0 and negatives included, and for
\* missing options, the effective block size is at least 1, the effective
\* stride is at least 1 and is the block size when sampleStep is absent, the
\* effective jitter is at least 0; both sampling loops come to their end.
C31_OptionsNormalised ==
    /\ [](pc # "start" =>
            /\ blockSize >= 1
            /\ sampleStep >= 1
            /\ jitter >= 0
            /\ ~Has(optionsArg, "sampleStep") => sampleStep = blockSize
            /\ Has(optionsArg, "mosaicBlockSize") =>
                  blockSize = Max(1, optionsArg.mosaicBlockSize)
            /\ Has(optionsArg, "sampleStep") =>
                  sampleStep = Max(1, optionsArg.sampleStep)
            /\ Has(optionsArg, "jitter") => jitter = Max(0, optionsArg.jitter))
    /\ <>(pc = "map")

\* Both loops have ended for options with a stride of 0, a negative block
\* size and a negative jitter
C31_Witness ==
    /\ pc = "map"
    /\ Has(optionsArg, "sampleStep") /\ optionsArg.sampleStep = 0
    /\ Has(optionsArg, "mosaicBlockSize") /\ optionsArg.mosaicBlockSize < 0
    /\ Has(optionsArg, "jitter") /\ optionsArg.jitter < 0
    /\ srcImg.width > 1

\* Both loops have ended for a call without options
C31_DefaultsReached ==
    /\ pc = "map"
    /\ optionsArg = << >>
    /\ blockSize = 1 /\ sampleStep = 1 /\ jitter = 0


----------------------------------------------------------------------------
(* Errors of a POST request (SpecApi) *)

\* The ValidationErrors raised while the request was handled
RaisedValidationErrors ==
    { e \in { vfResult.error, vdResult.error, postError } : e.name = "ValidationError" }

\* C32: every ValidationError raised while a POST request is handled, the
\* one of validateDimensions inside bahlilfy included, reaches the client
\* with its own status code and the code VALIDATION_ERROR; only errors that
\* are not known errors give status 500 with code INTERNAL_ERROR.
C32_ValidationErrorsReachClient ==
    postPc = "responded" =>
       /\ \A e \in RaisedValidationErrors :
             response = [status |-> e.statusCode, code |-> "VALIDATION_ERROR"]
       /\ response.status = 500 =>
             /\ response.code = "INTERNAL_ERROR"
             /\ RaisedValidationErrors = {}

\* The part that holds: an error raised before bahlilfy is called is answered
\* with its own status and code, and a 500 answers an error that is not known
C32_EarlyErrorsReachClient ==
    postPc = "responded" =>
       /\ vfResult.thrown =>
             response = [status |-> vfResult.error.statusCode, code |-> "VALIDATION_ERROR"]
       /\ response.status = 500 =>
             response.code = "INTERNAL_ERROR" /\ ~isKnownError(postError)
       /\ response.status = 200 => apiPc = "done"

\* A request whose image is too large has been answered with 500
C32_DimensionErrorMasked ==
    /\ postPc = "responded"
    /\ vdResult.thrown
    /\ vdResult.error.statusCode = 400
    /\ response = [status |-> 500, code |-> "INTERNAL_ERROR"]


----------------------------------------------------------------------------
(* Cancelled runs (SpecAnim) *)

\* C33: after a run has been cancelled by the effect cleanup its onComplete
\* is never invoked, neither by the load callback of the final image that is
\* pending when the cleanup comes after the p = 1 tick, nor by an animation
\* that starts after the cleanup.
C33_NoCompletionAfterCleanup ==
    [][cleanedUp => reports' = reports]_vars

\* The part that holds: a cleanup that finds a frame pending leaves no frame
\* pending, and then nothing is signalled any more
C33_CancelledFrameStaysSilent ==
    [][(cleanedUp /\ loadState = "resolved" /\ pendingFrame = 0 /\ ~finalPending)
          => (reports' = reports /\ tickLog' = tickLog)]_vars


----------------------------------------------------------------------------
(* The image-load barrier (SpecAnim) *)

\* A frame has been requested or a tick has run
Started == pendingFrame # 0 \/ animationId # 0 \/ nextFrameId > 1 \/ tickLog # <<>>

\* C34: for either order in which the two images finish loading, the
\* particles of a run are built exactly once and the first tick is scheduled
\* only after both images have loaded; no tick runs on a particle array that
\* has not been built.
C34_LoadBarrier ==
    /\ [](/\ Started => (fromLoaded /\ targetLoaded /\ loadState = "resolved")
          /\ loadState = "resolved" =>
                DOMAIN particles = DOMAIN createParticles(fromImageData, targetImageData)
          /\ loadState # "resolved" => particles = <<>>)
    /\ [][/\ (loadState = "loading" /\ loadState' = "resolved") =>
                /\ fromLoaded' /\ targetLoaded'
                /\ particles' = createParticles(fromImageData, targetImageData)
                /\ pendingFrame' = 1 /\ tickLog' = <<>>
          /\ loadState # "loading" =>
                /\ loadState' = loadState
                /\ fromLoaded' = fromLoaded /\ targetLoaded' = targetLoaded
                /\ DOMAIN particles' = DOMAIN particles]_vars

\* Both images have loaded, two particles are built and the first frame is
\* requested; no tick has run yet
C34_Witness ==
    /\ loadState = "resolved"
    /\ fromLoaded /\ targetLoaded
    /\ Len(particles) = 2
    /\ pendingFrame = 1
    /\ tickLog = <<>>

\* The two orders: one image has loaded, the other has not, nothing is built
C34_SourceFirst == fromLoaded /\ ~targetLoaded /\ particles = <<>> /\ ~Started
C34_TargetFirst == targetLoaded /\ ~fromLoaded /\ particles = <<>> /\ ~Started


----------------------------------------------------------------------------
(* Velocity under the final lock (SpecAnim) *)

\* C35: whenever a particle is held at its target by the q >= 0.95 lock its
\* velocity is (0, 0), so a locked particle is never drawn with the glow of
\* speed > 2.
C35_LockedParticlesAtRest ==
    (tickLog # <<>> /\ LastTick.phase = "lock") =>
        \A k \in DOMAIN particles :
            /\ particles[k].vx = 0
            /\ particles[k].vy = 0
            /\ ~Glows(particles[k])

\* The part that holds: a lock tick leaves the velocity as the tick before
\* left it
C35_LockKeepsVelocity ==
    [][(tickLog' # tickLog /\ tickLog'[Len(tickLog')].phase = "lock") =>
          \A k \in DOMAIN particles :
              /\ particles'[k].vx = particles[k].vx
              /\ particles'[k].vy = particles[k].vy]_vars

\* A particle is locked at its target and still has the velocity of the
\* last physics tick
C35_LockedWithVelocity ==
    /\ tickLog # <<>>
    /\ LastTick.phase = "lock"
    /\ \E k \in DOMAIN particles :
          /\ AtTarget(particles[k])
          /\ particles[k].vx # 0 \/ particles[k].vy # 0


----------------------------------------------------------------------------
(* What a tick leaves alone (SpecAnim) *)

\* The fields of a particle that no tick writes
FixedFields(particle) ==
    <<particle.color, particle.size, particle.targetX, particle.targetY,
      particle.originalX, particle.originalY>>

\* C36: no tick changes a particle's colour, size, target position or
\* origin, and the number of particles is constant during a run; a tick
\* modifies only the position, the velocity and, once, the scatter target.
C36_TickFrame ==
    [][loadState = "resolved" =>
          /\ DOMAIN particles' = DOMAIN particles
          /\ \A k \in DOMAIN particles :
                /\ FixedFields(particles'[k]) = FixedFields(particles[k])
                /\ particles[k].scatterTargetX # Undefined =>
                      /\ particles'[k].scatterTargetX = particles[k].scatterTargetX
                      /\ particles'[k].scatterTargetY = particles[k].scatterTargetY
          /\ tickLog' = tickLog => particles' = particles]_vars

\* Ticks of every phase have run on two particles, one of which has left its
\* origin and carries a scatter target
C36_Witness ==
    /\ Len(particles) = 2
    /\ { tickLog[k].phase : k \in DOMAIN tickLog } = {"hold", "scatter", "physics", "lock"}
    /\ \E k \in DOMAIN particles :
          /\ particles[k].x # particles[k].originalX
          /\ particles[k].scatterTargetX # Undefined
          /\ particles[k].targetX # particles[k].originalX


----------------------------------------------------------------------------
(* Sample retention of the two paths (SpecAnim) *)

\* The drawn image as the raw RGBA buffer the batch path reads
AsRaw(imageData) ==
    [width |-> imageData.width, height |-> imageData.height, channels |-> 4,
     data |-> imageData.data]

\* Number of pairs the batch path makes of the same rasters at the stride of
\* the animation, without jitter
BatchPairs ==
    Cardinality(DOMAIN mapPixelsToTarget(
                    extractPixels(AsRaw(fromImageData), animStep),
                    createTargetTemplate(AsRaw(targetImageData), animStep, 0, 0)))

\* Grid points of a drawn image whose alpha satisfies the test
GridCount(imageData, Keep(_)) ==
    Cardinality({ pt \in GridPoints(imageData, animStep) :
                    Keep(imageData.data[pt[2] * imageData.width + pt[1] + 1].a) })

\* C37: the animation builds its sample sets by the retention rule of the
\* batch path: source samples are not filtered by alpha, a target sample is
\* retained exactly when its alpha is at least 50; so for the same rasters
\* and stride both paths pair the same number of samples.
C37_SameRetentionAsBatch ==
    loadState = "resolved" =>
        /\ Len(collectPoints(fromImageData, 0, 0, <<>>))
              = GridCount(fromImageData, LAMBDA a : TRUE)
        /\ Len(collectPoints(targetImageData, 0, 0, <<>>))
              = GridCount(targetImageData, LAMBDA a : a >= ALPHA_THRESHOLD)
        /\ Len(particles) = BatchPairs

\* The rule the animation applies: on both images a sample is retained
\* exactly when its alpha is above 50
C37_AnimationRetention ==
    loadState = "resolved" =>
        /\ Len(collectPoints(fromImageData, 0, 0, <<>>))
              = GridCount(fromImageData, LAMBDA a : a > 50)
        /\ Len(collectPoints(targetImageData, 0, 0, <<>>))
              = GridCount(targetImageData, LAMBDA a : a > 50)
        /\ Len(particles) = Min(GridCount(fromImageData, LAMBDA a : a > 50),
                                GridCount(targetImageData, LAMBDA a : a > 50))

\* The animation pairs fewer samples than the batch path
C37_FewerParticlesThanPairs ==
    /\ loadState = "resolved"
    /\ Len(particles) < BatchPairs


----------------------------------------------------------------------------
(* The Home page (SpecHome) *)

\* Calls of onDrop that have started and have not returned
Running == { r \in 1..MaxDrops : dropPc[r] \in {"fetch", "shown", "starting"} }

\* C38: for every sequence of drop, response, timer and completion events
\* the particle transition is shown only after the POST request has
\* succeeded, the processed image is shown only after onComplete has fired,
\* when the request fails neither is shown while error is set, and uploading
\* is false whenever onDrop has finished.
C38_HomeSequencing ==
    /\ TransitionShown => postOk # {}
    /\ ResultShown => completions > 0
    /\ pageError # 0 => (~TransitionShown /\ ~ResultShown)
    /\ Running = {} => ~uploading

\* The part that holds for every sequence
C38_ShownOnlyAfterSuccess ==
    /\ TransitionShown => (postOk # {} /\ finalProcessedUrl \in postOk)
    /\ ResultShown => (completions > 0 /\ processedImage \in postOk)
    /\ Running = {} => ~uploading

\* As long as no call of onDrop has started while an earlier one was running,
\* nothing is shown while error is set
C38_SingleDropKeepsErrorAlone ==
    (~overlapped /\ pageError # 0) => (~TransitionShown /\ ~ResultShown)

\* A second drop has failed after the first one was completed and reset
C38_SecondDropFailed ==
    /\ ~overlapped
    /\ completions > 0
    /\ pageError = 2

\* The transition of one drop is shown while the error of another is set
C38_TransitionShownWithError ==
    /\ TransitionShown
    /\ pageError # 0
    /\ pageError # finalProcessedUrl


----------------------------------------------------------------------------
(* hasDrawing and the canvas (SpecCanvas) *)

\* C39: hasDrawing reflects the canvas content: after any sequence of
\* stroke, brush-size, brush-colour and clear events hasDrawing is true only
\* if the strokes drawn since the last clear are still on the canvas;
\* changing the brush size or colour does not erase earlier strokes.
C39_HasDrawingReflectsCanvas ==
    (hasDrawing \/ editorHasDrawing) => canvasInk = drawnSinceClear

\* The part that holds: both flags agree, and the canvas holds the strokes
\* drawn since the last clear or the last change of the brush
C39_FlagsAgree ==
    /\ hasDrawing = editorHasDrawing
    /\ \E n \in 0..Len(drawnSinceClear) :
          canvasInk = SubSeq(drawnSinceClear, n + 1, Len(drawnSinceClear))

\* A stroke has been drawn, the brush has been changed, and the canvas is
\* empty while hasDrawing is true
C39_StrokeErasedByBrushChange ==
    /\ hasDrawing
    /\ editorHasDrawing
    /\ drawnSinceClear # <<>>
    /\ canvasInk = <<>>
    /\ ctxStyle # drawnSinceClear[1]

====
